---------------------------- MODULE Spec2Model ----------------------------
(***************************************************************************)
(* Model of the oncehub availability dashboard: the tab resolver, the row  *)
(* validator and the analytics report of src/app/api/analytics/route.ts,   *)
(* together with the records endpoint of src/app/api/data/route.ts.        *)
(*                                                                         *)
(* Text is a sequence of one-character strings, so that trim, includes,    *)
(* the regular expressions and the CSV parser are computed as the code     *)
(* computes them.                                                          *)
(***************************************************************************)
EXTENDS Integers, Sequences, FiniteSets, TLC

VARIABLES clock, source, pc, i, allDaysData, response, probe

vars == <<clock, source, pc, i, allDaysData, response, probe>>

-----------------------------------------------------------------------------
(* Strings *)

WhiteSpace == {" ", "\t", "\r", "\n"}

Digits == {"0", "1", "2", "3", "4", "5", "6", "7", "8", "9"}

DigitValue(c) ==
  CASE c = "0" -> 0 [] c = "1" -> 1 [] c = "2" -> 2 [] c = "3" -> 3
    [] c = "4" -> 4 [] c = "5" -> 5 [] c = "6" -> 6 [] c = "7" -> 7
    [] c = "8" -> 8 [] c = "9" -> 9

\* String.prototype.toLowerCase, one character
LowerChar(c) ==
  CASE c = "A" -> "a" [] c = "B" -> "b" [] c = "C" -> "c" [] c = "D" -> "d"
    [] c = "E" -> "e" [] c = "F" -> "f" [] c = "G" -> "g" [] c = "H" -> "h"
    [] c = "I" -> "i" [] c = "J" -> "j" [] c = "K" -> "k" [] c = "L" -> "l"
    [] c = "M" -> "m" [] c = "N" -> "n" [] c = "O" -> "o" [] c = "P" -> "p"
    [] c = "Q" -> "q" [] c = "R" -> "r" [] c = "S" -> "s" [] c = "T" -> "t"
    [] c = "U" -> "u" [] c = "V" -> "v" [] c = "W" -> "w" [] c = "X" -> "x"
    [] c = "Y" -> "y" [] c = "Z" -> "z" [] OTHER -> c

toLowerCase(s) == [k \in 1..Len(s) |-> LowerChar(s[k])]

\* first index >= k of s whose character is outside set (Len(s)+1 if none)
RECURSIVE SkipChars(_, _, _)
SkipChars(s, k, set) ==
  IF k > Len(s) \/ s[k] \notin set THEN k ELSE SkipChars(s, k + 1, set)

\* last index <= k of s whose character is outside set (0 if none)
RECURSIVE SkipCharsBack(_, _, _)
SkipCharsBack(s, k, set) ==
  IF k < 1 \/ s[k] \notin set THEN k ELSE SkipCharsBack(s, k - 1, set)

\* String.prototype.trim
trim(s) == SubSeq(s, SkipChars(s, 1, WhiteSpace), SkipCharsBack(s, Len(s), WhiteSpace))

\* String.prototype.includes
includes(s, sub) ==
  \E k \in 1..(Len(s) - Len(sub) + 1) : SubSeq(s, k, k + Len(sub) - 1) = sub

\* first index >= k of s whose character is in set (Len(s)+1 if none)
RECURSIVE FindChar(_, _, _)
FindChar(s, k, set) ==
  IF k > Len(s) \/ s[k] \in set THEN k ELSE FindChar(s, k + 1, set)

\* parseInt(digits, 10) of a run of decimal digits
RECURSIVE parseInt(_)
parseInt(ds) ==
  IF ds = <<>> THEN 0
  ELSE 10 * parseInt(SubSeq(ds, 1, Len(ds) - 1)) + DigitValue(ds[Len(ds)])

\* s.match(/(\d+)/): the first maximal run of digits, <<>> when there is none
FirstDigits(s) ==
  LET a == FindChar(s, 1, Digits)
      b == SkipChars(s, a, Digits)
  IN  SubSeq(s, a, b - 1)

\* /^\d+\s*\([\d.]+%\)$/.test(s)
IsSummaryName(s) ==
  LET a == SkipChars(s, 1, Digits)
      b == SkipChars(s, a, WhiteSpace)
      c == SkipChars(s, b + 1, Digits \cup {"."})
  IN  /\ a > 1
      /\ b <= Len(s) /\ s[b] = "("
      /\ c > b + 1
      /\ c + 1 = Len(s)
      /\ s[c] = "%"
      /\ s[c + 1] = ")"

sHRT == <<"H", "R", "T">>
sTRT == <<"T", "R", "T">>
sProvider == <<"P", "r", "o", "v", "i", "d", "e", "r">>
sOncehub == <<"o", "n", "c", "e", "h", "u", "b", ".", "c", "o", "m">>
sExcluded == <<"d", "a", "n", "i", "e", "l", " ", "r", "a", "p", "h", "a", "e", "l">>

Categories == {sHRT, sTRT, sProvider}

-----------------------------------------------------------------------------
(* CSV *)

\* csvText.split('\n')
RECURSIVE split(_)
split(text) ==
  LET k == FindChar(text, 1, {"\n"})
  IN  IF k > Len(text) THEN <<text>>
      ELSE <<SubSeq(text, 1, k - 1)>> \o split(SubSeq(text, k + 1, Len(text)))

\* a variant that starts a new field at every comma, quoted or not
RECURSIVE ParseLineSplittingInQuotes(_, _, _, _, _)
ParseLineSplittingInQuotes(line, k, row, current, inQuotes) ==
  IF k > Len(line) THEN Append(row, current)
  ELSE IF line[k] = "\""
       THEN IF inQuotes /\ k + 1 <= Len(line) /\ line[k + 1] = "\""
            THEN ParseLineSplittingInQuotes(line, k + 2, row, Append(current, "\""), inQuotes)
            ELSE ParseLineSplittingInQuotes(line, k + 1, row, current, ~inQuotes)
       ELSE IF line[k] = ","
            THEN ParseLineSplittingInQuotes(line, k + 1, Append(row, current), <<>>, inQuotes)
            ELSE ParseLineSplittingInQuotes(line, k + 1, row, Append(current, line[k]), inQuotes)

\* the character loop of parseCSV over one line, from index k
RECURSIVE ParseLine(_, _, _, _, _)
ParseLine(line, k, row, current, inQuotes) ==
  IF k > Len(line) THEN Append(row, current)
  ELSE IF line[k] = "\""
       THEN IF inQuotes /\ k + 1 <= Len(line) /\ line[k + 1] = "\""
            THEN ParseLine(line, k + 2, row, Append(current, "\""), inQuotes)
            ELSE ParseLine(line, k + 1, row, current, ~inQuotes)
       ELSE IF line[k] = "," /\ ~inQuotes
            THEN ParseLine(line, k + 1, Append(row, current), <<>>, inQuotes)
            ELSE ParseLine(line, k + 1, row, Append(current, line[k]), inQuotes)

\* a variant that gives a blank line a row too
RECURSIVE ParseLinesKeepingBlank(_)
ParseLinesKeepingBlank(lines) ==
  IF lines = <<>> THEN <<>>
  ELSE <<ParseLine(Head(lines), 1, <<>>, <<>>, FALSE)>> \o ParseLinesKeepingBlank(Tail(lines))

RECURSIVE ParseLines(_)
ParseLines(lines) ==
  IF lines = <<>> THEN <<>>
  ELSE IF trim(Head(lines)) = <<>> THEN ParseLines(Tail(lines))
       ELSE <<ParseLine(Head(lines), 1, <<>>, <<>>, FALSE)>> \o ParseLines(Tail(lines))

parseCSV(csvText) == ParseLines(split(csvText))


\* one cell as the published CSV export writes it: double-quote-enclosed,
\* an embedded double quote doubled
RECURSIVE EscapeCell(_)
EscapeCell(cell) ==
  IF cell = <<>> THEN <<>>
  ELSE (IF Head(cell) = "\"" THEN <<"\"", "\"">> ELSE <<Head(cell)>>)
       \o EscapeCell(Tail(cell))

QuoteCell(cell) == <<"\"">> \o EscapeCell(cell) \o <<"\"">>

RECURSIVE EncodeRow(_)
EncodeRow(cells) ==
  IF cells = <<>> THEN <<>>
  ELSE IF Len(cells) = 1 THEN QuoteCell(cells[1])
       ELSE QuoteCell(cells[1]) \o <<",">> \o EncodeRow(Tail(cells))

\* the text the publishing endpoint serves for a sheet (tqx=out:csv)
RECURSIVE ToCSV(_)
ToCSV(sheet) ==
  IF sheet = <<>> THEN <<>>
  ELSE IF Len(sheet) = 1 THEN EncodeRow(sheet[1])
       ELSE EncodeRow(sheet[1]) \o <<"\n">> \o ToCSV(Tail(sheet))

-----------------------------------------------------------------------------
(* Row validator and record mapper of the analytics route *)

\* row[k] || '' (k counted from 0 as in the code)
Field(row, k) == IF k + 1 <= Len(row) THEN row[k + 1] ELSE <<>>

\* rows.some(row => row[0] && [...].includes(row[0].trim()))
hasValidData(rows) ==
  \E r \in 1..Len(rows) : Field(rows[r], 0) # <<>> /\ trim(Field(rows[r], 0)) \in Categories

\* daysOut of one row: first run of digits of column 4, -1 when there is none
DaysOutOf(row) ==
  LET ds == FirstDigits(trim(Field(row, 4)))
  IN  IF ds = <<>> THEN -1 ELSE parseInt(ds)

\* the rejection rules of the row loop, in the order of the code
RowAccepted(row) ==
  LET category == trim(Field(row, 0))
      name == trim(Field(row, 2))
      url == trim(Field(row, 3))
  IN  /\ category \in Categories
      /\ name # <<>>
      /\ ~IsSummaryName(name)
      /\ ~includes(toLowerCase(name), sExcluded)
      /\ includes(url, sOncehub)

DataItemOf(row) ==
  [name |-> trim(Field(row, 2)),
   type |-> trim(Field(row, 0)),
   location |-> trim(Field(row, 1)),
   daysOut |-> DaysOutOf(row)]

\* for (let i = 1; i < rows.length; i++) { ... data.push(...) }
RECURSIVE MapRowsFrom(_, _)
MapRowsFrom(rows, r) ==
  IF r > Len(rows) THEN <<>>
  ELSE (IF RowAccepted(rows[r]) THEN <<DataItemOf(rows[r])>> ELSE <<>>)
       \o MapRowsFrom(rows, r + 1)

\* row 0 is the header and is skipped
MapRows(rows) == MapRowsFrom(rows, 2)

-----------------------------------------------------------------------------
(* Sheets of the external spreadsheet used as inputs *)

sAlpha == <<"A", "l", "p", "h", "a">>
sBeta == <<"B", "e", "t", "a">>
sGamma == <<"G", "a", "m", "m", "a">>
sDelta == <<"D", "e", "l", "t", "a">>
sTX == <<"T", "X">>
sOH == <<"O", "H">>
sCA == <<"C", "A">>
sUrl == <<"g", "o", ".", "o", "n", "c", "e", "h", "u", "b", ".", "c", "o", "m", "/", "a">>
sSummaryName == <<"2", "2", " ", "(", "1", "0", "0", ".", "0", "%", ")">>
sUnknownWait == <<"N", "/", "A">>
sDecorated == <<"~", " ", "5", " ", "d", "a", "y", "s", " ", "(", "1", "2", "/", "0", "1", ")">>

HeaderRow ==
  <<<<"T", "y", "p", "e">>,
    <<"L", "o", "c", "a", "t", "i", "o", "n">>,
    <<"N", "a", "m", "e">>,
    <<"U", "R", "L">>,
    <<"D", "a", "y", "s">>>>

Cell2 == <<"2">>
Cell3 == <<"3">>
Cell4 == <<"4">>
Cell7 == <<"7">>

\* latest-style sheet: a known wait, an unknown wait, a Provider row
SheetA ==
  <<HeaderRow,
    <<sHRT, sTX, sAlpha, sUrl, Cell2>>,
    <<sTRT, sOH, sBeta, sUrl, sUnknownWait>>,
    <<sProvider, <<>>, sGamma, sUrl, Cell7>>>>

SheetB ==
  <<HeaderRow,
    <<sHRT, sTX, sAlpha, sUrl, sDecorated>>,
    <<sTRT, sOH, sBeta, sUrl, Cell4>>,
    <<sHRT, sCA, sDelta, sUrl, Cell3>>,
    <<sProvider, <<>>, sGamma, sUrl, Cell7>>>>

SheetC ==
  <<HeaderRow,
    <<sHRT, sTX, sAlpha, sUrl, Cell3>>,
    <<sProvider, <<>>, sGamma, sUrl, Cell7>>>>

\* every wait unknown
SheetU ==
  <<HeaderRow,
    <<sHRT, sTX, sAlpha, sUrl, sUnknownWait>>>>

\* a dashboard tab: whitelisted categories, but only summary rows and rows
\* without the source URL
SheetSummary ==
  <<HeaderRow,
    <<sHRT, <<>>, sSummaryName, sUrl, Cell3>>,
    <<sTRT, sOH, sBeta, <<>>, Cell4>>>>

\* an unrelated tab: no whitelisted category anywhere
SheetOther ==
  <<HeaderRow,
    <<sAlpha, sTX, sBeta, sUrl, Cell3>>,
    <<sGamma, sOH, sDelta, sUrl, Cell4>>>>

\* a tab whose rows carry a whitelisted category but no name
SheetNameless ==
  <<HeaderRow,
    <<sHRT, sTX, <<>>, sUrl, Cell3>>,
    <<sTRT, sOH, <<" ">>, sUrl, Cell4>>>>

\* a placeholder page: one acceptable row, but under the size threshold
SheetShort ==
  <<<<sTX>>,
    <<sHRT, <<>>, sAlpha, sOncehub, Cell2>>>>

-----------------------------------------------------------------------------
(* Dates.  A Date is an instant, counted in hours of universal time; the   *)
(* server's zone is a standard offset and, optionally, the instant from    *)
(* which clocks are one hour forward.  A calendar day is its day number.   *)

Offset(tz, t) == IF tz.hasDst /\ t >= tz.dstAt THEN tz.base + 1 ELSE tz.base

\* the local wall-clock reading of an instant
LocalTime(tz, t) == t + Offset(tz, t)

\* the instant of a local wall-clock reading
FromLocal(tz, l) ==
  IF tz.hasDst /\ l - (tz.base + 1) >= tz.dstAt THEN l - (tz.base + 1) ELSE l - tz.base

\* getMonth() / getDate() / getFullYear(): the local calendar day
LocalDay(tz, t) == LocalTime(tz, t) \div 24

\* date.setDate(date.getDate() - n): same wall-clock time, n local days back
SetDateBack(tz, t, n) == FromLocal(tz, LocalTime(tz, t) - 24 * n)

\* date.toISOString().split('T')[0]: the calendar day in universal time
ISODate(t) == t \div 24

-----------------------------------------------------------------------------
(* Tab names.  "Results MM-DD-YYYY HH:MM:SS EST" is <<format, day, time,   *)
(* seconds, zone>>; the names without a timestamp leave the last three     *)
(* empty.                                                                  *)

commonTimes ==
  <<"03:00", "03:05", "03:10", "03:15", "03:17", "03:20", "03:25", "03:30",
    "03:35", "03:40", "03:45", "03:48", "03:50", "03:55",
    "04:00", "04:05", "04:10">>

TimedTab(day, time, sec) == <<"MM-DD-YYYY", day, time, sec, "EST">>
BareTab(day) == <<"MM-DD-YYYY", day, "", "", "">>
IsoTab(day) == <<"YYYY-MM-DD", day, "", "", "">>

RECURSIVE TimedTabs(_, _)
TimedTabs(day, k) ==
  IF k > Len(commonTimes) THEN <<>>
  ELSE <<TimedTab(day, commonTimes[k], "00"),
         TimedTab(day, commonTimes[k], "09"),
         TimedTab(day, commonTimes[k], "30")>> \o TimedTabs(day, k + 1)

\* generateTabNames(date), of a date whose local calendar day is day
generateTabNames(day) == TimedTabs(day, 1) \o <<BareTab(day), IsoTab(day)>>

-----------------------------------------------------------------------------
(* The external source: a table from tab name to what fetching it does.    *)

\* A table entry names what the tab serves: a failure, or one of the sheets
Sheet(id) ==
  CASE id = "A" -> SheetA
    [] id = "B" -> SheetB
    [] id = "C" -> SheetC
    [] id = "U" -> SheetU
    [] id = "Summary" -> SheetSummary
    [] id = "Other" -> SheetOther
    [] id = "Nameless" -> SheetNameless
    [] id = "Short" -> SheetShort

Throws == [throws |-> TRUE, ok |-> FALSE, text |-> <<>>]
NotOk == [throws |-> FALSE, ok |-> FALSE, text |-> <<>>]
Page(text) == [throws |-> FALSE, ok |-> TRUE, text |-> text]

\* await fetch(csvUrl), then response.ok and response.text(): a tab the
\* table does not hold answers non-success
Fetch(src, tab) ==
  IF tab \notin DOMAIN src THEN NotOk
  ELSE IF src[tab] = "throws" THEN Throws
  ELSE IF src[tab] = "notOk" THEN NotOk
  ELSE Page(ToCSV(Sheet(src[tab])))

MinTextLength == 50

\* The body of the candidate loop for one tab says whether the loop
\* returns at it (stop) and with what; otherwise the loop continues with
\* the next tab.
Continue == [stop |-> FALSE, found |-> FALSE, data |-> <<>>]
Return(data) == [stop |-> TRUE, found |-> TRUE, data |-> data]

\* if (data.length > 0) return data
AcceptData(data) == IF Len(data) > 0 THEN Return(data) ELSE Continue

\* if (!hasValidData) continue; then the row loop
ProbeRows(rows) == IF ~hasValidData(rows) THEN Continue ELSE AcceptData(MapRows(rows))

\* if (!csvText || csvText.length < 50) continue
ProbeText(text) ==
  IF Len(text) < MinTextLength THEN Continue ELSE ProbeRows(parseCSV(text))

\* a variant in which a failing fetch ends the loop with nothing found
ProbeResponseAbortingOnFailure(r) ==
  IF r.throws \/ ~r.ok THEN [stop |-> TRUE, found |-> FALSE, data |-> <<>>]
  ELSE ProbeText(r.text)

\* try { fetch; if (!response.ok) continue; ... } catch { continue }
ProbeResponse(r) ==
  IF r.throws THEN Continue
  ELSE IF ~r.ok THEN Continue
  ELSE ProbeText(r.text)

ProbeTab(src, tab) == ProbeResponse(Fetch(src, tab))

Max(set) == CHOOSE x \in set : \A y \in set : x >= y
Min(set) == CHOOSE x \in set : \A y \in set : x <= y

\* a variant that fetches every tab and keeps the last that returns
LoopResultAtLastMatch(tabs, out, stops) ==
  IF stops = {} THEN [found |-> FALSE, data |-> <<>>, fetched |-> tabs]
  ELSE [found |-> out[Max(stops)].found, data |-> out[Max(stops)].data,
        fetched |-> tabs]

\* for (const tabName of tabNames) { ... } return null: out[k] is what the
\* body does at the k-th tab and stops the tabs at which it returns.  The
\* loop returns at the first of them, having fetched the tabs up to it.
LoopResult(tabs, out, stops) ==
  IF stops = {} THEN [found |-> FALSE, data |-> <<>>, fetched |-> tabs]
  ELSE [found |-> out[Min(stops)].found, data |-> out[Min(stops)].data,
        fetched |-> SubSeq(tabs, 1, Min(stops))]

LoopOver(tabs, out) == LoopResult(tabs, out, {k \in 1..Len(tabs) : out[k].stop})

ProbeLoop(src, tabs) == LoopOver(tabs, [k \in 1..Len(tabs) |-> ProbeTab(src, tabs[k])])

\* fetchDataForDate(date): null is found = FALSE
fetchDataForDate(src, tz, date) ==
  ProbeLoop(src, generateTabNames(LocalDay(tz, date)))

-----------------------------------------------------------------------------
(* Analytics: statistics of one day and the report over the series.        *)
(* A mean is kept as the fraction sum / count; 0 is 0 / 1.                 *)

RECURSIVE SumDaysOut(_)
SumDaysOut(items) ==
  IF items = <<>> THEN 0 ELSE Head(items).daysOut + SumDaysOut(Tail(items))

Zero == [num |-> 0, den |-> 1]

\* items.length > 0 ? items.reduce((s, d) => s + d.daysOut, 0) / items.length : 0
Mean(items) ==
  IF Len(items) > 0 THEN [num |-> SumDaysOut(items), den |-> Len(items)] ELSE Zero

\* a variant that keeps the records of unknown wait
KnownOrUnknown(items) == items

\* data.filter(d => d.daysOut >= 0)
Known(items) == SelectSeq(items, LAMBDA d : d.daysOut >= 0)

OfType(items, type) == SelectSeq(items, LAMBDA d : d.type = type)

\* the three means of calculateDayStats over valid = data.filter(d => d.daysOut >= 0)
StatsOfValid(valid) ==
  [avgWait |-> Mean(valid),
   hrtAvg |-> Mean(OfType(valid, sHRT)),
   trtAvg |-> Mean(OfType(valid, sTRT))]

calculateDayStats(data) == StatsOfValid(Known(data))

\* Array.prototype.sort (stable) by ascending key: the element at index j
\* goes after every element with a smaller key and every earlier element
\* with the same key
StableSort(items, keys) ==
  LET n == Len(items)
      rank(j) == Cardinality({m \in 1..n : keys[m] < keys[j] \/ (keys[m] = keys[j] /\ m < j)}) + 1
  IN  [r \in 1..n |-> items[CHOOSE j \in 1..n : rank(j) = r]]

\* a variant that keeps every item
SliceAll(items, n) == items

\* slice(0, n)
Slice(items, n) == SubSeq(items, 1, IF Len(items) < n THEN Len(items) ELSE n)

Abs(x) == IF x < 0 THEN -x ELSE x

ImmediateThreshold == 3
TopCount == 10
WindowDays == 7

WestKeywords ==
  <<<<"C", "a", "l", "i", "f", "o", "r", "n", "i", "a">>,
    <<"C", "A">>,
    <<"O", "r", "e", "g", "o", "n">>,
    <<"O", "R">>,
    <<"W", "a", "s", "h", "i", "n", "g", "t", "o", "n">>,
    <<"W", "A">>,
    <<"N", "e", "v", "a", "d", "a">>,
    <<"N", "V">>,
    <<"A", "r", "i", "z", "o", "n", "a">>,
    <<"A", "Z">>,
    <<"U", "t", "a", "h">>,
    <<"U", "T">>,
    <<"C", "o", "l", "o", "r", "a", "d", "o">>,
    <<"C", "O">>,
    <<"N", "e", "w", " ", "M", "e", "x", "i", "c", "o">>,
    <<"N", "M">>,
    <<"M", "o", "n", "t", "a", "n", "a">>,
    <<"M", "T">>,
    <<"I", "d", "a", "h", "o">>,
    <<"I", "D">>,
    <<"W", "y", "o", "m", "i", "n", "g">>,
    <<"W", "Y">>,
    <<"A", "l", "a", "s", "k", "a">>,
    <<"A", "K">>,
    <<"H", "a", "w", "a", "i", "i">>,
    <<"H", "I">>>>

MidwestKeywords ==
  <<<<"O", "h", "i", "o">>,
    <<"O", "H">>,
    <<"M", "i", "c", "h", "i", "g", "a", "n">>,
    <<"M", "I">>,
    <<"I", "n", "d", "i", "a", "n", "a">>,
    <<"I", "N">>,
    <<"I", "l", "l", "i", "n", "o", "i", "s">>,
    <<"I", "L">>,
    <<"W", "i", "s", "c", "o", "n", "s", "i", "n">>,
    <<"W", "I">>,
    <<"M", "i", "n", "n", "e", "s", "o", "t", "a">>,
    <<"M", "N">>,
    <<"I", "o", "w", "a">>,
    <<"I", "A">>,
    <<"M", "i", "s", "s", "o", "u", "r", "i">>,
    <<"M", "O">>,
    <<"N", "e", "b", "r", "a", "s", "k", "a">>,
    <<"N", "E">>,
    <<"K", "a", "n", "s", "a", "s">>,
    <<"K", "S">>,
    <<"N", "o", "r", "t", "h", " ", "D", "a", "k", "o", "t", "a">>,
    <<"N", "D">>,
    <<"S", "o", "u", "t", "h", " ", "D", "a", "k", "o", "t", "a">>,
    <<"S", "D">>>>

SouthKeywords ==
  <<<<"T", "e", "x", "a", "s">>,
    <<"T", "X">>,
    <<"F", "l", "o", "r", "i", "d", "a">>,
    <<"F", "L">>,
    <<"G", "e", "o", "r", "g", "i", "a">>,
    <<"G", "A">>,
    <<"N", "o", "r", "t", "h", " ", "C", "a", "r", "o", "l", "i", "n", "a">>,
    <<"N", "C">>,
    <<"V", "i", "r", "g", "i", "n", "i", "a">>,
    <<"V", "A">>,
    <<"T", "e", "n", "n", "e", "s", "s", "e", "e">>,
    <<"T", "N">>,
    <<"K", "e", "n", "t", "u", "c", "k", "y">>,
    <<"K", "Y">>,
    <<"A", "l", "a", "b", "a", "m", "a">>,
    <<"A", "L">>,
    <<"M", "i", "s", "s", "i", "s", "s", "i", "p", "p", "i">>,
    <<"M", "S">>,
    <<"L", "o", "u", "i", "s", "i", "a", "n", "a">>,
    <<"L", "A">>,
    <<"A", "r", "k", "a", "n", "s", "a", "s">>,
    <<"A", "R">>,
    <<"O", "k", "l", "a", "h", "o", "m", "a">>,
    <<"O", "K">>,
    <<"S", "o", "u", "t", "h", " ", "C", "a", "r", "o", "l", "i", "n", "a">>,
    <<"S", "C">>,
    <<"M", "a", "r", "y", "l", "a", "n", "d">>,
    <<"M", "D">>,
    <<"W", "e", "s", "t", " ", "V", "i", "r", "g", "i", "n", "i", "a">>,
    <<"W", "V">>,
    <<"D", "e", "l", "a", "w", "a", "r", "e">>,
    <<"D", "E">>,
    <<"D", "C">>>>

NortheastKeywords ==
  <<<<"N", "e", "w", " ", "Y", "o", "r", "k">>,
    <<"N", "Y">>,
    <<"N", "e", "w", " ", "J", "e", "r", "s", "e", "y">>,
    <<"N", "J">>,
    <<"P", "e", "n", "n", "s", "y", "l", "v", "a", "n", "i", "a">>,
    <<"P", "A">>,
    <<"M", "a", "s", "s", "a", "c", "h", "u", "s", "e", "t", "t", "s">>,
    <<"M", "A">>,
    <<"C", "o", "n", "n", "e", "c", "t", "i", "c", "u", "t">>,
    <<"C", "T">>,
    <<"N", "e", "w", " ", "H", "a", "m", "p", "s", "h", "i", "r", "e">>,
    <<"N", "H">>,
    <<"V", "e", "r", "m", "o", "n", "t">>,
    <<"V", "T">>,
    <<"M", "a", "i", "n", "e">>,
    <<"M", "E">>,
    <<"R", "h", "o", "d", "e", " ", "I", "s", "l", "a", "n", "d">>,
    <<"R", "I">>>>

regions ==
  <<[region |-> "West", keywords |-> WestKeywords],
    [region |-> "Midwest", keywords |-> MidwestKeywords],
    [region |-> "South", keywords |-> SouthKeywords],
    [region |-> "Northeast", keywords |-> NortheastKeywords]>>

\* keywords.some(kw => d.location.includes(kw) || d.name.includes(kw) ||
\*                     d.location.toLowerCase() === kw.toLowerCase())
InRegion(d, keywords) ==
  \E k \in 1..Len(keywords) :
     \/ includes(d.location, keywords[k])
     \/ includes(d.name, keywords[k])
     \/ toLowerCase(d.location) = toLowerCase(keywords[k])

-----------------------------------------------------------------------------
(* The report of the analytics GET, from allDaysData (most recent first)   *)

\* latestData.filter(d => (d.type === 'HRT' || d.type === 'TRT') && d.daysOut >= 0)
statesOnly(latestData) ==
  SelectSeq(latestData, LAMBDA d : (d.type = sHRT \/ d.type = sTRT) /\ d.daysOut >= 0)

\* validData = latestData.filter(d => d.daysOut >= 0)
StatsOver(latestData, validData) ==
  [totalLinks |-> Len(latestData),
   avgWait |-> Mean(validData),
   immediate |-> Len(SelectSeq(validData, LAMBDA d : d.daysOut <= ImmediateThreshold))]

currentStats(latestData) == StatsOver(latestData, Known(latestData))

\* [...s].sort((a, b) => a.daysOut - b.daysOut)
SortAscending(s) == StableSort(s, [k \in 1..Len(s) |-> s[k].daysOut])

\* [...s].sort((a, b) => b.daysOut - a.daysOut)
SortDescending(s) == StableSort(s, [k \in 1..Len(s) |-> 0 - s[k].daysOut])

bestStates(latestData) == Slice(SortAscending(statesOnly(latestData)), TopCount)

worstStates(latestData) == Slice(SortDescending(statesOnly(latestData)), TopCount)

\* a variant that divides by the number of matches whatever it is
RegionEntryUnguarded(region, regionData) ==
  [region |-> region, count |-> Len(regionData),
   avgWait |-> [num |-> SumDaysOut(regionData), den |-> Len(regionData)]]

\* { region, count, avgWait: regionData.length > 0 ? sum / length : 0 }
RegionEntry(region, regionData) ==
  [region |-> region, count |-> Len(regionData), avgWait |-> Mean(regionData)]

RegionsOver(states) ==
  [g \in 1..Len(regions) |->
     RegionEntry(regions[g].region,
                 SelectSeq(states, LAMBDA d : InRegion(d, regions[g].keywords)))]

regionalStats(latestData) == RegionsOver(statesOnly(latestData))

\* previousDay.data.find(d => d.name === item.name): its index, 0 when none
FindByName(data, name) ==
  IF \E k \in 1..Len(data) : data[k].name = name
  THEN CHOOSE k \in 1..Len(data) :
         /\ data[k].name = name
         /\ \A m \in 1..(k - 1) : data[m].name # name
  ELSE 0

\* a variant that also pushes the entries of change 0
ChangeOfKeepingZero(item, older, p) ==
  IF item.daysOut < 0 THEN <<>>
  ELSE IF p # 0 /\ older[p].daysOut >= 0
       THEN <<[name |-> item.name, type |-> item.type,
               change |-> item.daysOut - older[p].daysOut,
               current |-> item.daysOut,
               previousValue |-> older[p].daysOut]>>
       ELSE <<>>

\* the body of the loop over latestData: the entry pushed for item, whose
\* match in the older day is at index p (0: no match)
ChangeOf(item, older, p) ==
  IF item.daysOut < 0 THEN <<>>
  ELSE IF p # 0 /\ older[p].daysOut >= 0
       THEN IF item.daysOut - older[p].daysOut # 0
            THEN <<[name |-> item.name, type |-> item.type,
                    change |-> item.daysOut - older[p].daysOut,
                    current |-> item.daysOut,
                    previousValue |-> older[p].daysOut]>>
            ELSE <<>>
       ELSE <<>>

RECURSIVE ChangesFrom(_, _, _)
ChangesFrom(latestData, older, k) ==
  IF k > Len(latestData) THEN <<>>
  ELSE ChangeOf(latestData[k], older, FindByName(older, latestData[k].name))
       \o ChangesFrom(latestData, older, k + 1)

\* sort((a, b) => Math.abs(b.change) - Math.abs(a.change))
SortByMagnitude(changes) ==
  StableSort(changes, [k \in 1..Len(changes) |-> 0 - Abs(changes[k].change)])

\* a weekly entry carries name, type and change only
WeeklyEntries(c) ==
  [k \in 1..Len(c) |-> [name |-> c[k].name, type |-> c[k].type, change |-> c[k].change]]

\* a variant that takes the oldest day of the series as the previous one
previousDayOldest(days) == IF Len(days) > 1 THEN <<days[Len(days)]>> ELSE <<>>

\* a variant that compares with the oldest day of a series of any length
weekAgoDayNearest(days) == IF Len(days) > 1 THEN <<days[Len(days)]>> ELSE <<>>

\* const previousDay = allDaysData.length > 1 ? allDaysData[1] : null
\* (null is <<>>, a day is <<day>>)
previousDay(days) == IF Len(days) > 1 THEN <<days[2]>> ELSE <<>>

\* const weekAgoDay = allDaysData.length >= 7 ? allDaysData[6] : null
weekAgoDay(days) == IF Len(days) >= 7 THEN <<days[7]>> ELSE <<>>

\* if (previousDay) { ...; dailyChanges.sort(...) }
ChangesAgainst(latestData, older) ==
  IF older = <<>> THEN <<>>
  ELSE SortByMagnitude(ChangesFrom(latestData, older[1].data, 1))

dailyChanges(days) == ChangesAgainst(days[1].data, previousDay(days))

weeklyChanges(days) == WeeklyEntries(ChangesAgainst(days[1].data, weekAgoDay(days)))

\* allDaysData.reverse()
Reverse(s) == [k \in 1..Len(s) |-> s[Len(s) + 1 - k]]

TrendPoints(r) ==
  [k \in 1..Len(r) |->
     [date |-> ISODate(r[k].date), avgWait |-> r[k].avgWait,
      hrtAvg |-> r[k].hrtAvg, trtAvg |-> r[k].trtAvg]]

trendData(days) == TrendPoints(Reverse(days))

NoDataResponse ==
  [success |-> FALSE,
   error |-> "No data available",
   currentStats |-> [totalLinks |-> 0, avgWait |-> Zero, immediate |-> 0],
   bestStates |-> <<>>,
   worstStates |-> <<>>,
   regionalStats |-> <<>>,
   dailyChanges |-> <<>>,
   weeklyChanges |-> <<>>,
   trendData |-> <<>>,
   daysAnalyzed |-> 0]

ReportBody(days, latestData) ==
  [success |-> TRUE,
   currentStats |-> currentStats(latestData),
   bestStates |-> bestStates(latestData),
   worstStates |-> worstStates(latestData),
   regionalStats |-> regionalStats(latestData),
   dailyChanges |-> dailyChanges(days),
   weeklyChanges |-> weeklyChanges(days),
   trendData |-> trendData(days),
   daysAnalyzed |-> Len(days),
   latestDate |-> ISODate(days[1].date)]

\* const previousDayAvg = previousDay ? previousDay.avgWait : undefined;
\* an undefined field is absent from the JSON
WithPreviousDayAvg(body, previous) ==
  IF previous = <<>> THEN body ELSE body @@ [previousDayAvg |-> previous[1].avgWait]

Report(days) == WithPreviousDayAvg(ReportBody(days, days[1].data), previousDay(days))

\* a variant that answers an empty series with a report of zeros
AnalyticsResponseZeroReport(days) ==
  IF Len(days) = 0
  THEN [success |-> TRUE,
        currentStats |-> [totalLinks |-> 0, avgWait |-> Zero, immediate |-> 0],
        bestStates |-> <<>>,
        worstStates |-> <<>>,
        regionalStats |-> <<>>,
        dailyChanges |-> <<>>,
        weeklyChanges |-> <<>>,
        trendData |-> <<>>,
        daysAnalyzed |-> 0,
        latestDate |-> 0]
  ELSE Report(days)

\* if (allDaysData.length === 0) return the "no data" response
AnalyticsResponse(days) == IF Len(days) = 0 THEN NoDataResponse ELSE Report(days)

-----------------------------------------------------------------------------
(* The analytics request: GET of src/app/api/analytics/route.ts            *)

\* the local calendar day of the request
Today == 20

\* the server's zone: universal time, a fixed offset west of it, and the
\* same offset with clocks going forward at 02:00 of the request's day
ServerZones ==
  {[base |-> 0, hasDst |-> FALSE, dstAt |-> 0],
   [base |-> 0 - 5, hasDst |-> FALSE, dstAt |-> 0],
   [base |-> 0 - 5, hasDst |-> TRUE, dstAt |-> 24 * Today + 2 + 5]}

RequestHours == {19}

Clocks ==
  {[now |-> FromLocal(tz, 24 * Today + h), tz |-> tz] : tz \in ServerZones, h \in RequestHours}

\* the sheets a day of the window may have published, by its distance from
\* the request's day: the days the report compares vary, the days between
\* are published or not
SheetsFor(j) ==
  IF j = 0 THEN {"A", "B", "U"}
  ELSE IF j = 1 THEN {"A", "B", "C"}
  ELSE IF j = WindowDays - 1 THEN {"B", "C"}
  ELSE {"C"}

Unpublished == "none"

Publications ==
  {p \in [0..(WindowDays - 1) -> {"A", "B", "C", "U", Unpublished}] :
     \A j \in 0..(WindowDays - 1) : p[j] = Unpublished \/ p[j] \in SheetsFor(j)}

\* the tab a day's sheet is published under
PublishedTab(day) == TimedTab(day, "03:48", "30")

SourceOf(p) ==
  [t \in {PublishedTab(Today - j) : j \in {k \in DOMAIN p : p[k] # Unpublished}}
     |-> p[Today - t[2]]]

NoResponse == [pending |-> TRUE]
NoProbe == [pending |-> TRUE]

Init ==
  /\ clock \in Clocks
  /\ source \in {SourceOf(p) : p \in Publications}
  /\ pc = "loop"
  /\ i = 0
  /\ allDaysData = <<>>
  /\ response = NoResponse
  /\ probe = NoProbe

\* const date = new Date(today); date.setDate(date.getDate() - i)
DateOfIteration(c, n) == SetDateBack(c.tz, c.now, n)

\* if (data && data.length > 0) allDaysData.push({ date, data, ...stats })
PushDay(days, date, r) ==
  IF r.found /\ Len(r.data) > 0
  THEN Append(days, [date |-> date, data |-> r.data] @@ calculateDayStats(r.data))
  ELSE days

\* one iteration of for (let i = 0; i < 7; i++)
FetchDay ==
  /\ pc = "loop"
  /\ i < WindowDays
  /\ allDaysData' = PushDay(allDaysData, DateOfIteration(clock, i),
                             fetchDataForDate(source, clock.tz, DateOfIteration(clock, i)))
  /\ i' = i + 1
  /\ UNCHANGED <<clock, source, pc, response, probe>>

\* the rest of GET once the loop has ended
Respond ==
  /\ pc = "loop"
  /\ i = WindowDays
  /\ response' = AnalyticsResponse(allDaysData)
  /\ pc' = "done"
  /\ UNCHANGED <<clock, source, i, allDaysData, probe>>

Next == FetchDay \/ Respond

Spec == Init /\ [][Next]_vars

-----------------------------------------------------------------------------
(* Resolving one date: fetchDataForDate of the analytics route on its own  *)

\* how many tabs the source holds for the probed day
MaxPublished == 2

\* the tabs that may be published: the first candidate, one in the middle,
\* the two without a timestamp (the last candidates), and yesterday's
ProbeSlots ==
  {TimedTab(Today, "03:00", "00"), PublishedTab(Today), BareTab(Today),
   IsoTab(Today), PublishedTab(Today - 1)}

ProbeKinds == {"throws", "notOk", "Short", "Summary", "Nameless", "Other", "A", "B"}

ResolveSources ==
  UNION {[slots -> ProbeKinds] :
           slots \in {x \in SUBSET ProbeSlots : Cardinality(x) <= MaxPublished}}

InitResolve ==
  /\ clock \in Clocks
  /\ source \in ResolveSources
  /\ pc = "probe"
  /\ i = 0
  /\ allDaysData = <<>>
  /\ response = NoResponse
  /\ probe = NoProbe

\* const data = await fetchDataForDate(date), for the request's day
ResolveDate ==
  /\ pc = "probe"
  /\ probe' = fetchDataForDate(source, clock.tz, clock.now)
  /\ pc' = "probed"
  /\ UNCHANGED <<clock, source, i, allDaysData, response>>

NextResolve == ResolveDate

SpecResolve == InitResolve /\ [][NextResolve]_vars

-----------------------------------------------------------------------------
(* The records endpoint: src/app/api/data/route.ts                         *)

NamedTab(name) == <<name, 0, "", "", "">>

\* TABS_TO_TRY; a day number is the day of January 2026
TABS_TO_TRY ==
  <<TimedTab(11, "03:48", "30"), BareTab(10), BareTab(9),
    NamedTab("Daily Summary"), NamedTab("Summary")>>

\* scrapedAt is taken from the row, else from the tab name, else is "now"
StampFromTab(tab) == [from |-> "tab", at |-> tab[2], time |-> tab[3], sec |-> tab[4], text |-> <<>>]
StampFromRow(text) == [from |-> "row", at |-> 0, time |-> "", sec |-> "", text |-> text]
StampNow(now) == [from |-> "now", at |-> now, time |-> "", sec |-> "", text |-> <<>>]
NoStamp == [from |-> "none", at |-> 0, time |-> "", sec |-> "", text |-> <<>>]

\* tabName.match(/(\d{2})-(\d{2})-(\d{4})\s*(\d{2}):(\d{2}):(\d{2})/)
tabDate(tab) ==
  IF tab[1] = "MM-DD-YYYY" /\ tab[3] # "" THEN StampFromTab(tab) ELSE NoStamp

AllDigits(s, a, b) == b <= Len(s) /\ \A k \in a..b : s[k] \in Digits

\* /(\d{4})-(\d{2})-(\d{2})\s+(\d{2}):(\d{2}):(\d{2})/ matches s at index k,
\* the time of day starting at index t
StampAt(s, k, t) ==
  /\ AllDigits(s, k, k + 3) /\ s[k + 4] = "-"
  /\ AllDigits(s, k + 5, k + 6) /\ s[k + 7] = "-"
  /\ AllDigits(s, k + 8, k + 9)
  /\ t > k + 10
  /\ AllDigits(s, t, t + 1) /\ t + 7 <= Len(s) /\ s[t + 2] = ":"
  /\ AllDigits(s, t + 3, t + 4) /\ s[t + 5] = ":"
  /\ AllDigits(s, t + 6, t + 7)

StampMatches(s) == {k \in 1..Len(s) : k + 9 <= Len(s) /\ StampAt(s, k, SkipChars(s, k + 10, WhiteSpace))}

\* `${year}-${month}-${day}T${hour}:${min}:${sec}` of the first match
StampText(s, k, t) == SubSeq(s, k, k + 9) \o <<"T">> \o SubSeq(s, t, t + 7)

rowStamp(s) ==
  IF StampMatches(s) = {} THEN NoStamp
  ELSE StampFromRow(StampText(s, Min(StampMatches(s)),
                              SkipChars(s, Min(StampMatches(s)) + 10, WhiteSpace)))

\* scrapedAt || new Date().toISOString()
scrapedAtOf(row, tab, now) ==
  IF trim(Field(row, 8)) # <<>> /\ rowStamp(trim(Field(row, 8))).from # "none"
  THEN rowStamp(trim(Field(row, 8)))
  ELSE IF tabDate(tab).from # "none" THEN tabDate(tab) ELSE StampNow(now)

\* the checks of parseResults: five columns, a whitelisted category, a name
dataRowAccepted(row) ==
  /\ Len(row) >= 5
  /\ trim(Field(row, 0)) \in Categories
  /\ trim(Field(row, 2)) # <<>>

\* row[7] ? row[7].trim() : null is <<>> for null and <<text>> otherwise;
\* errorCode || undefined is the text, empty when undefined
ScrapingResultOf(row, tab, now) ==
  [name |-> trim(Field(row, 2)),
   type |-> trim(Field(row, 0)),
   location |-> trim(Field(row, 1)),
   daysOutUntilAppointment |-> DaysOutOf(row),
   firstAvailableDate |-> IF Field(row, 7) = <<>> THEN <<>> ELSE <<trim(Field(row, 7))>>,
   scrapedAt |-> scrapedAtOf(row, tab, now),
   error |-> trim(Field(row, 9))]

RECURSIVE dataParseFrom(_, _, _, _)
dataParseFrom(rows, r, tab, now) ==
  IF r > Len(rows) THEN <<>>
  ELSE (IF dataRowAccepted(rows[r]) THEN <<ScrapingResultOf(rows[r], tab, now)>> ELSE <<>>)
       \o dataParseFrom(rows, r + 1, tab, now)

\* parseResults(rows, tabName) of the records endpoint
dataParseResults(rows, tab, now) == dataParseFrom(rows, 2, tab, now)

KnownTabMinLength == 100

\* the body of the loop over TABS_TO_TRY
KnownTabRows(rows, tab, now) ==
  IF Len(rows) < 2 THEN Continue
  ELSE IF ~hasValidData(rows) THEN Continue
  ELSE Return(dataParseResults(rows, tab, now))

KnownTabResponse(r, tab, now) ==
  IF r.throws THEN Continue
  ELSE IF ~r.ok THEN Continue
  ELSE IF Len(r.text) < KnownTabMinLength THEN Continue
  ELSE KnownTabRows(parseCSV(r.text), tab, now)

\* the body of the loops of tryDynamicTabSearch and fetchDataForDate
DatedTabRows(rows, tab, now) ==
  IF hasValidData(rows) THEN Return(dataParseResults(rows, tab, now)) ELSE Continue

DatedTabResponse(r, tab, now) ==
  IF r.throws THEN Continue
  ELSE IF ~r.ok THEN Continue
  ELSE DatedTabRows(parseCSV(r.text), tab, now)

\* possibleTabs of tryDynamicTabSearch: two names for each of the last 7 days
RECURSIVE possibleTabs(_, _)
possibleTabs(c, n) ==
  IF n >= WindowDays THEN <<>>
  ELSE <<BareTab(LocalDay(c.tz, DateOfIteration(c, n))),
         IsoTab(LocalDay(c.tz, DateOfIteration(c, n)))>> \o possibleTabs(c, n + 1)

tryDynamicTabSearch(src, c) ==
  LoopOver(possibleTabs(c, 0),
           [k \in 1..(2 * WindowDays) |->
              DatedTabResponse(Fetch(src, possibleTabs(c, 0)[k]), possibleTabs(c, 0)[k], c.now)])

Failure(message, day) == [ok |-> FALSE, results |-> <<>>, message |-> message, day |-> day]
Success(results) == [ok |-> TRUE, results |-> results, message |-> "", day |-> 0]

\* throw lastError || new Error('No valid data tab found')
lastErrorOr(src) ==
  IF \E k \in 1..Len(TABS_TO_TRY) : Fetch(src, TABS_TO_TRY[k]).throws
  THEN Failure("fetch failed", 0)
  ELSE Failure("No valid data tab found", 0)

AfterDynamicSearch(src, dyn) == IF dyn.found THEN Success(dyn.data) ELSE lastErrorOr(src)

AfterKnownTabs(src, c, known) ==
  IF known.found THEN Success(known.data)
  ELSE AfterDynamicSearch(src, tryDynamicTabSearch(src, c))

dataFetchFromGoogleSheets(src, c) ==
  AfterKnownTabs(src, c,
    LoopOver(TABS_TO_TRY,
             [k \in 1..Len(TABS_TO_TRY) |->
                KnownTabResponse(Fetch(src, TABS_TO_TRY[k]), TABS_TO_TRY[k], c.now)]))

\* new Date(dateStr) of a YYYY-MM-DD string: midnight, universal time
DateOfString(day) == 24 * day

datedTabs(c, day) ==
  <<BareTab(LocalDay(c.tz, DateOfString(day))), IsoTab(LocalDay(c.tz, DateOfString(day)))>>

AfterDatedTabs(res, day) ==
  IF res.found THEN Success(res.data) ELSE Failure("No data found for date", day)

\* fetchDataForDate(dateStr) of the records endpoint
dataFetchDataForDate(src, c, day) ==
  AfterDatedTabs(
    LoopOver(datedTabs(c, day),
             [k \in 1..2 |-> DatedTabResponse(Fetch(src, datedTabs(c, day)[k]),
                                              datedTabs(c, day)[k], c.now)]),
    day)

\* the comparator of results.sort: rows with an error last, then unknown
\* waits last, then ascending wait
SortsBefore(a, b) ==
  IF (a.error # <<>>) # (b.error # <<>>) THEN b.error # <<>>
  ELSE IF (a.daysOutUntilAppointment < 0) # (b.daysOutUntilAppointment < 0)
       THEN b.daysOutUntilAppointment < 0
  ELSE a.daysOutUntilAppointment < b.daysOutUntilAppointment

\* Array.prototype.sort (stable) under the comparator
SortResults(items) ==
  [r \in 1..Len(items) |->
     items[CHOOSE j \in 1..Len(items) :
             Cardinality({m \in 1..Len(items) :
                            \/ SortsBefore(items[m], items[j])
                            \/ (~SortsBefore(items[j], items[m]) /\ m < j)}) + 1 = r]]

\* a request is <<>> (no date parameter) or <<day>>
SuccessBody(sorted, req, now) ==
  [success |-> TRUE,
   count |-> Len(sorted),
   lastUpdated |-> IF Len(sorted) > 0 THEN sorted[1].scrapedAt ELSE StampNow(now),
   date |-> req,
   data |-> sorted]

DataResponse(res, req, now) ==
  IF res.ok THEN SuccessBody(SortResults(res.results), req, now)
  ELSE [success |-> FALSE, error |-> [message |-> res.message, day |-> res.day], data |-> <<>>]

dataGET(src, c, req) ==
  DataResponse(IF req # <<>> THEN dataFetchDataForDate(src, c, req[1])
               ELSE dataFetchFromGoogleSheets(src, c),
               req, c.now)

\* the tabs the source may hold: two of TABS_TO_TRY and two dated ones
DataSlots ==
  {TABS_TO_TRY[1], TABS_TO_TRY[4], BareTab(Today), IsoTab(Today - 1)}

DataKinds == {"throws", "notOk", "Nameless", "Summary", "U", "A"}

DataSources ==
  UNION {[slots -> DataKinds] :
           slots \in {x \in SUBSET DataSlots : Cardinality(x) <= MaxPublished}}

DataRequests == {<<>>, <<Today>>, <<Today - 1>>}

InitData ==
  /\ clock \in Clocks
  /\ source \in DataSources
  /\ pc = "request"
  /\ i = 0
  /\ allDaysData = <<>>
  /\ response = NoResponse
  /\ probe = NoProbe

\* GET /api/data, with or without ?date=
DataGET ==
  /\ pc = "request"
  /\ \E req \in DataRequests : response' = dataGET(source, clock, req)
  /\ pc' = "done"
  /\ UNCHANGED <<clock, source, i, allDaysData, probe>>

NextData == DataGET

SpecData == InitData /\ [][NextData]_vars

-----------------------------------------------------------------------------
(* Properties of the resolver, checked under SpecResolve.  They are stated *)
(* over the table of the source and the records each sheet is known to     *)
(* hold, not over the resolver's own steps.                                *)

Item(name, type, location, daysOut) ==
  [name |-> name, type |-> type, location |-> location, daysOut |-> daysOut]

\* the records of the sheets, read off the sheets by hand
RecordsOfSheet(id) ==
  CASE id = "A" -> <<Item(sAlpha, sHRT, sTX, 2), Item(sBeta, sTRT, sOH, 0 - 1),
                     Item(sGamma, sProvider, <<>>, 7)>>
    [] id = "B" -> <<Item(sAlpha, sHRT, sTX, 5), Item(sBeta, sTRT, sOH, 4),
                     Item(sDelta, sHRT, sCA, 3), Item(sGamma, sProvider, <<>>, 7)>>
    [] id = "C" -> <<Item(sAlpha, sHRT, sTX, 3), Item(sGamma, sProvider, <<>>, 7)>>
    [] id = "U" -> <<Item(sAlpha, sHRT, sTX, 0 - 1)>>
    [] OTHER -> <<>>

\* what the source serves under a tab
Served(tab) == IF tab \in DOMAIN source THEN source[tab] ELSE "notOk"

\* the fetch of the tab throws or answers non-success
FailsAt(tab) == Served(tab) \in {"throws", "notOk"}

\* the tab holds a sheet of records: large enough, with a row that validates
Matches(tab) == RecordsOfSheet(Served(tab)) # <<>>

\* the candidate names of the request's day, in the order they are tried
Candidates == generateTabNames(LocalDay(clock.tz, clock.now))

MatchingCandidates == {k \in 1..Len(Candidates) : Matches(Candidates[k])}

\* the candidates the source's table holds a matching sheet for
MatchingTabs ==
  {tab \in DOMAIN source :
     Matches(tab) /\ \E k \in 1..Len(Candidates) : Candidates[k] = tab}

\* C1: a candidate whose fetch throws or answers non-success never ends the
\* resolution: the resolution finds records exactly when some candidate
\* matches, whatever the fetches of the others do, and it stops at a failing
\* candidate only when that is the last candidate of all and none matched.
C1_FailingFetchNeverAborts ==
  pc = "probed" =>
    /\ probe.found = (MatchingTabs # {})
    /\ probe.found => probe.data # <<>>
    /\ FailsAt(probe.fetched[Len(probe.fetched)])
         => ~probe.found /\ Len(probe.fetched) = Len(Candidates)

\* a resolution that succeeded although an earlier candidate threw
C1_Witness ==
  /\ pc = "probed"
  /\ probe.found
  /\ \E k \in 1..(Len(probe.fetched) - 1) : Served(Candidates[k]) = "throws"

\* C3: the candidates are probed in their order and probing stops at the
\* first that matches: the tabs fetched are the candidates up to and
\* including the earliest matching one (all of them when none matches), and
\* the records returned are those of that earliest one.
C3_StopsAtFirstMatch ==
  pc = "probed" =>
    IF MatchingCandidates = {}
    THEN ~probe.found /\ probe.fetched = Candidates
    ELSE /\ probe.found
         /\ probe.fetched = SubSeq(Candidates, 1, Min(MatchingCandidates))
         /\ probe.data = RecordsOfSheet(Served(Candidates[Min(MatchingCandidates)]))

\* two candidates match with different records, and the later one is not fetched
C3_Witness ==
  /\ pc = "probed"
  /\ probe.found
  /\ \E k \in MatchingCandidates :
       /\ k > Len(probe.fetched)
       /\ RecordsOfSheet(Served(Candidates[k])) # probe.data

-----------------------------------------------------------------------------
(* Properties of the records endpoint, checked under SpecData.             *)

\* C2: no successful resolution carries zero records: a response of the
\* records endpoint that reports success holds at least one record.
C2_SuccessCarriesRecords ==
  (pc = "done" /\ response.success) => Len(response.data) > 0

\* C14: no record the records endpoint returns has a name of the aggregate
\* pattern, a leading integer followed by a percentage in parentheses.
C14_NoAggregateRecord ==
  (pc = "done" /\ response.success) =>
    \A k \in 1..Len(response.data) : ~IsSummaryName(response.data[k].name)

-----------------------------------------------------------------------------
(* Properties of the analytics report, checked under Spec.  The days that  *)
(* resolve and their snapshots are read off the source's table.            *)

RequestDay == LocalDay(clock.tz, clock.now)

\* the calendar days of the trailing window
Window == {RequestDay - n : n \in 0..(WindowDays - 1)}

\* the tabs of the table that are candidates of a day and hold records
MatchingTabsOf(day) ==
  {tab \in DOMAIN source :
     /\ tab[2] = day
     /\ Matches(tab)
     /\ \E k \in 1..Len(generateTabNames(day)) : generateTabNames(day)[k] = tab}

ResolvableDays == {day \in Window : MatchingTabsOf(day) # {}}

\* the records of a resolvable day (the table holds one matching tab a day)
SnapshotOf(day) == RecordsOfSheet(source[CHOOSE tab \in MatchingTabsOf(day) : TRUE])

Responded == pc = "done" /\ "success" \in DOMAIN response

\* the differences latest - older of the names both snapshots know the wait of
DeltaPairs(latest, older) ==
  {<<latest[x[1]].name, latest[x[1]].daysOut - older[x[2]].daysOut>> :
     x \in {y \in (1..Len(latest)) \X (1..Len(older)) :
              /\ latest[y[1]].name = older[y[2]].name
              /\ latest[y[1]].daysOut >= 0
              /\ older[y[2]].daysOut >= 0}}

NonZero(pairs) == {p \in pairs : p[2] # 0}

\* the name and change of the entries of a changes section
EntryPairs(changes) == {<<changes[k].name, changes[k].change>> : k \in 1..Len(changes)}

\* a changes section is exactly the non-zero differences, one entry each
IsDeltaSection(changes, latest, older) ==
  /\ EntryPairs(changes) = NonZero(DeltaPairs(latest, older))
  /\ Len(changes) = Cardinality(NonZero(DeltaPairs(latest, older)))

\* C4: the series holds exactly the days of the window that resolve, and the
\* trend has one point per resolved day, in strictly increasing date order
\* without duplicate dates, daysAnalyzed being the number of points.
C4_TrendIsTheResolvedDays ==
  Responded =>
    /\ {LocalDay(clock.tz, allDaysData[k].date) : k \in 1..Len(allDaysData)} = ResolvableDays
    /\ Len(allDaysData) = Cardinality(ResolvableDays)
    /\ Len(response.trendData) = Cardinality(ResolvableDays)
    /\ response.daysAnalyzed = Len(response.trendData)
    /\ \A k \in 1..(Len(response.trendData) - 1) :
         response.trendData[k].date < response.trendData[k + 1].date

C6_DailyChangeIsDifference ==
  (Responded /\ Len(allDaysData) >= 2) =>
    /\ IsDeltaSection(response.dailyChanges, allDaysData[1].data, allDaysData[2].data)
    /\ \A k \in 1..Len(response.dailyChanges) :
         /\ response.dailyChanges[k].change # 0
         /\ response.dailyChanges[k].change =
              response.dailyChanges[k].current - response.dailyChanges[k].previousValue
         /\ response.dailyChanges[k].current >= 0
         /\ response.dailyChanges[k].previousValue >= 0

\* a report with a change, over snapshots that also share a name of equal
\* waits, where the latest does not know the wait of a name the previous
\* knows, and the previous holds a name the latest lacks
C6_Witness ==
  /\ Responded
  /\ Len(allDaysData) >= 2
  /\ response.dailyChanges # <<>>
  /\ \E p \in DeltaPairs(allDaysData[1].data, allDaysData[2].data) : p[2] = 0
  /\ \E k \in 1..Len(allDaysData[1].data) :
       /\ allDaysData[1].data[k].daysOut < 0
       /\ \E m \in 1..Len(allDaysData[2].data) :
            allDaysData[2].data[m].name = allDaysData[1].data[k].name
  /\ \E m \in 1..Len(allDaysData[2].data) :
       \A k \in 1..Len(allDaysData[1].data) :
          allDaysData[1].data[k].name # allDaysData[2].data[m].name

LatestDay == Max(ResolvableDays)

\* the most recent resolvable day strictly before the latest one
BaselineDay == Max(ResolvableDays \ {LatestDay})

\* two fractions denote the same number
SameFraction(a, b) == a.num * b.den = b.num * a.den

RECURSIVE WaitSum(_, _, _)
\* the sum of the known waits of the first k records that are of the types
WaitSum(data, k, types) ==
  IF k = 0 THEN 0
  ELSE WaitSum(data, k - 1, types)
       + (IF data[k].daysOut >= 0 /\ data[k].type \in types THEN data[k].daysOut ELSE 0)

KnownOf(data, types) == {k \in 1..Len(data) : data[k].daysOut >= 0 /\ data[k].type \in types}

\* the mean of the known waits of the records of the types, 0 when there is none
KnownMean(data, types) ==
  IF KnownOf(data, types) = {} THEN Zero
  ELSE [num |-> WaitSum(data, Len(data), types), den |-> Cardinality(KnownOf(data, types))]

C8_WeeklyChangeAtLeastTwo ==
  Responded =>
    \A k \in 1..Len(response.weeklyChanges) : Abs(response.weeklyChanges[k].change) >= 2

\* C9: the week-over-week section is computed only when all 7 days of the
\* window resolve, and then against the oldest of them; when fewer resolve
\* it is empty, whatever older snapshot there is.
C9_WeeklyNeedsFullWindow ==
  (Responded /\ ResolvableDays # {}) =>
    IF Cardinality(ResolvableDays) >= 7
    THEN IsDeltaSection(response.weeklyChanges, SnapshotOf(LatestDay),
                        SnapshotOf(Min(ResolvableDays)))
    ELSE response.weeklyChanges = <<>>

\* six days resolve, the oldest of them differing from the latest, and the
\* weekly section is empty
C9_Witness ==
  /\ Responded
  /\ Cardinality(ResolvableDays) = 6
  /\ NonZero(DeltaPairs(SnapshotOf(LatestDay), SnapshotOf(Min(ResolvableDays)))) # {}
  /\ response.weeklyChanges = <<>>

StateTypes == {sHRT, sTRT}

\* the known HRT and TRT records of a snapshot that a region's keywords match
RegionMembers(data, keywords) ==
  {k \in KnownOf(data, StateTypes) : InRegion(data[k], keywords)}

RECURSIVE SumOfWaits(_, _)
SumOfWaits(data, ks) ==
  IF ks = {} THEN 0
  ELSE data[Min(ks)].daysOut + SumOfWaits(data, ks \ {Min(ks)})

RegionIsOfKnown(entry, data, keywords) ==
  /\ entry.count = Cardinality(RegionMembers(data, keywords))
  /\ SameFraction(entry.avgWait,
                  IF RegionMembers(data, keywords) = {} THEN Zero
                  ELSE [num |-> SumOfWaits(data, RegionMembers(data, keywords)),
                        den |-> Cardinality(RegionMembers(data, keywords))])

\* C10: a record of unknown wait (-1) counts in totalLinks and in nothing
\* else: the overall mean, the HRT and TRT means of the day, the immediate
\* count, the rankings and the regional counts and means are those of the
\* records of known wait, and a mean over no known wait is 0.
C10_UnknownWaitOnlyCounted ==
  (Responded /\ response.success) =>
    /\ response.currentStats.totalLinks = Len(allDaysData[1].data)
    /\ SameFraction(response.currentStats.avgWait, KnownMean(allDaysData[1].data, Categories))
    /\ KnownOf(allDaysData[1].data, Categories) = {} => response.currentStats.avgWait.num = 0
    /\ response.currentStats.immediate =
         Cardinality({k \in KnownOf(allDaysData[1].data, Categories) :
                        allDaysData[1].data[k].daysOut <= 3})
    /\ SameFraction(response.trendData[Len(response.trendData)].avgWait,
                    KnownMean(allDaysData[1].data, Categories))
    /\ SameFraction(response.trendData[Len(response.trendData)].hrtAvg,
                    KnownMean(allDaysData[1].data, {sHRT}))
    /\ SameFraction(response.trendData[Len(response.trendData)].trtAvg,
                    KnownMean(allDaysData[1].data, {sTRT}))
    /\ \A k \in 1..Len(response.bestStates) : response.bestStates[k].daysOut >= 0
    /\ \A k \in 1..Len(response.worstStates) : response.worstStates[k].daysOut >= 0
    /\ Len(response.bestStates) = Cardinality(KnownOf(allDaysData[1].data, StateTypes))
    /\ Len(response.worstStates) = Cardinality(KnownOf(allDaysData[1].data, StateTypes))
    /\ \A g \in 1..Len(regions) :
         RegionIsOfKnown(response.regionalStats[g], allDaysData[1].data, regions[g].keywords)

\* a report over a latest snapshot that holds a record of unknown wait in a
\* region's state beside records of known wait
C10_Witness ==
  /\ Responded
  /\ response.success
  /\ \E k \in 1..Len(allDaysData[1].data) :
       /\ allDaysData[1].data[k].daysOut < 0
       /\ allDaysData[1].data[k].type \in StateTypes
       /\ \E g \in 1..Len(regions) : InRegion(allDaysData[1].data[k], regions[g].keywords)
  /\ KnownOf(allDaysData[1].data, StateTypes) # {}
  /\ response.currentStats.totalLinks > Cardinality(KnownOf(allDaysData[1].data, Categories))

-----------------------------------------------------------------------------
(* The report over one latest snapshot of many records: the end of the     *)
(* analytics GET when a single day of the window resolved.                 *)

MaxRecords == 13

RecordLetters == <<"a", "b", "c", "d", "e", "f", "g", "h", "i", "j", "k", "l", "m", "n">>

StateLocations == <<sTX, sOH, sCA>>

\* the k-th record of a snapshot: waits run up or down modulo m, the third
\* wait is unknown when u, the fourth record is a Provider when p
SnapshotRecord(k, n, m, up, u, p) ==
  [name |-> <<"S", RecordLetters[k]>>,
   type |-> IF p /\ k = 4 THEN sProvider ELSE IF k % 2 = 0 THEN sTRT ELSE sHRT,
   location |-> IF p /\ k = 4 THEN <<>> ELSE StateLocations[(k % 3) + 1],
   daysOut |-> IF u /\ k = 3 THEN 0 - 1
               ELSE IF up THEN k % m ELSE (n - k) % m]

Snapshots ==
  {[k \in 1..n |-> SnapshotRecord(k, n, m, up, u, p)] :
     n \in 1..MaxRecords, m \in {2, 5, 13}, up \in BOOLEAN, u \in BOOLEAN, p \in BOOLEAN}

\* the state of GET after its loop, one day having resolved to the snapshot
InitLatest ==
  /\ clock \in {c \in Clocks : ~c.tz.hasDst /\ c.tz.base = 0}
  /\ source = <<>>
  /\ pc = "loop"
  /\ i = WindowDays
  /\ \E s \in Snapshots :
       allDaysData = PushDay(<<>>, clock.now, [found |-> TRUE, data |-> s])
  /\ response = NoResponse
  /\ probe = NoProbe

NextLatest == Respond

SpecLatest == InitLatest /\ [][NextLatest]_vars

\* the latest snapshot the report was computed from
LatestSnapshot == allDaysData[1].data

\* the index in a snapshot of the record of a name (names are unique)
IndexOfName(data, name) == CHOOSE k \in 1..Len(data) : data[k].name = name

\* a ranking of the snapshot: at most TopCount records, all of them known
\* HRT or TRT records of the snapshot, no record twice, as many as the
\* snapshot allows
IsSelection(ranking, data) ==
  /\ Len(ranking) <= 10
  /\ \A r \in 1..Len(ranking) :
       /\ ranking[r].type \in StateTypes
       /\ ranking[r].daysOut >= 0
       /\ \E k \in KnownOf(data, StateTypes) : data[k] = ranking[r]
  /\ \A r, q \in 1..Len(ranking) : r # q => ranking[r].name # ranking[q].name
  /\ Len(ranking) = IF Cardinality(KnownOf(data, StateTypes)) < 10
                    THEN Cardinality(KnownOf(data, StateTypes)) ELSE 10

\* the ranking is ordered by sign * wait, equal waits in the order of the
\* snapshot, and no record left out would come before one that is in
IsOrdered(ranking, data, sign) ==
  /\ \A r \in 1..(Len(ranking) - 1) :
       \/ sign * ranking[r].daysOut < sign * ranking[r + 1].daysOut
       \/ /\ ranking[r].daysOut = ranking[r + 1].daysOut
          /\ IndexOfName(data, ranking[r].name) < IndexOfName(data, ranking[r + 1].name)
  /\ \A k \in KnownOf(data, StateTypes) :
       (\A r \in 1..Len(ranking) : ranking[r].name # data[k].name)
         => \A r \in 1..Len(ranking) : sign * ranking[r].daysOut <= sign * data[k].daysOut

\* C11: bestStates and worstStates hold at most 10 records each, all HRT or
\* TRT of known wait; bestStates is in non-decreasing and worstStates in
\* non-increasing order of wait, records of equal wait in their original
\* order, and no record left out of bestStates has a smaller wait than one
\* in it (a larger one for worstStates).
C11_RankingsAreTopTen ==
  (Responded /\ response.success) =>
    /\ IsSelection(response.bestStates, LatestSnapshot)
    /\ IsSelection(response.worstStates, LatestSnapshot)
    /\ IsOrdered(response.bestStates, LatestSnapshot, 1)
    /\ IsOrdered(response.worstStates, LatestSnapshot, 0 - 1)

\* a report over more than 10 rankable records, beside a Provider and a
\* record of unknown wait, where records of equal wait are ranked and a
\* record is left out
C11_Witness ==
  /\ Responded
  /\ response.success
  /\ Cardinality(KnownOf(LatestSnapshot, StateTypes)) > 10
  /\ \E k \in 1..Len(LatestSnapshot) : LatestSnapshot[k].type = sProvider
  /\ \E k \in 1..Len(LatestSnapshot) : LatestSnapshot[k].daysOut < 0
  /\ \E r \in 1..(Len(response.bestStates) - 1) :
       response.bestStates[r].daysOut = response.bestStates[r + 1].daysOut
  /\ \E r \in 1..(Len(response.worstStates) - 1) :
       response.worstStates[r].daysOut = response.worstStates[r + 1].daysOut

\* the names of the fixed region table, in its order
RegionNames == <<"West", "Midwest", "South", "Northeast">>

\* C12: regionalStats holds one entry per region of the fixed table, in the
\* table's order; a region no record matches reports count 0 and the
\* number 0 as its mean, and a region with matches reports the mean of the
\* known waits of exactly the matched records.
C12_EveryRegionReported ==
  (Responded /\ response.success) =>
    /\ Len(response.regionalStats) = Len(RegionNames)
    /\ \A g \in 1..Len(RegionNames) :
         /\ response.regionalStats[g].region = RegionNames[g]
         /\ response.regionalStats[g].avgWait.den > 0
         /\ response.regionalStats[g].count =
              Cardinality(RegionMembers(LatestSnapshot, regions[g].keywords))
         /\ IF RegionMembers(LatestSnapshot, regions[g].keywords) = {}
            THEN /\ response.regionalStats[g].count = 0
                 /\ response.regionalStats[g].avgWait.num = 0
            ELSE response.regionalStats[g].avgWait.num * response.regionalStats[g].count =
                   SumOfWaits(LatestSnapshot, RegionMembers(LatestSnapshot, regions[g].keywords))
                   * response.regionalStats[g].avgWait.den

\* a report with a region no record matches and a region several match
C12_Witness ==
  /\ Responded
  /\ response.success
  /\ \E g \in 1..Len(RegionNames) : response.regionalStats[g].count = 0
  /\ \E g \in 1..Len(RegionNames) : response.regionalStats[g].count > 1

-----------------------------------------------------------------------------
(* The validators of the other versions of the records route:              *)
(* parseResults of src/unnamed/part_004 and parseRowsToResults of          *)
(* src/unnamed/part_003.                                                   *)

\* tabName.match(/(\d{2})-(\d{2})-(\d{4})\s*(\d{2})?:?(\d{2})?:?(\d{2})?/),
\* the time of day defaulting to '00'
tabDateOrMidnight(tab) ==
  IF tab[1] # "MM-DD-YYYY" THEN NoStamp
  ELSE IF tab[3] # "" THEN StampFromTab(tab)
  ELSE [from |-> "tab", at |-> tab[2], time |-> "00:00", sec |-> "00", text |-> <<>>]

scrapedAtOrMidnight(row, tab, now) ==
  IF trim(Field(row, 8)) # <<>> /\ rowStamp(trim(Field(row, 8))).from # "none"
  THEN rowStamp(trim(Field(row, 8)))
  ELSE IF tabDateOrMidnight(tab).from # "none" THEN tabDateOrMidnight(tab) ELSE StampNow(now)

\* the checks of parseResults: five columns, then those of the analytics route
resultRowAccepted(row) == Len(row) >= 5 /\ RowAccepted(row)

ResultOf(row, tab, now) ==
  [name |-> trim(Field(row, 2)),
   type |-> trim(Field(row, 0)),
   location |-> trim(Field(row, 1)),
   daysOutUntilAppointment |-> DaysOutOf(row),
   firstAvailableDate |-> IF Field(row, 7) = <<>> THEN <<>> ELSE <<trim(Field(row, 7))>>,
   scrapedAt |-> scrapedAtOrMidnight(row, tab, now),
   error |-> trim(Field(row, 9))]

RECURSIVE parseResultsFrom(_, _, _, _)
parseResultsFrom(rows, r, tab, now) ==
  IF r > Len(rows) THEN <<>>
  ELSE (IF resultRowAccepted(rows[r]) THEN <<ResultOf(rows[r], tab, now)>> ELSE <<>>)
       \o parseResultsFrom(rows, r + 1, tab, now)

\* parseResults(rows, tabName) of part_004
parseResults(rows, tab, now) == parseResultsFrom(rows, 2, tab, now)

sName == <<"n", "a", "m", "e">>
sUrlWord == <<"u", "r", "l">>
sCategoryWord == <<"c", "a", "t", "e", "g", "o", "r", "y">>
sTypeWord == <<"t", "y", "p", "e">>
sLocationWord == <<"l", "o", "c", "a", "t", "i", "o", "n">>
sStateWord == <<"s", "t", "a", "t", "e">>
sDaysWord == <<"d", "a", "y", "s">>
sOutWord == <<"o", "u", "t">>
sFirstWord == <<"f", "i", "r", "s", "t">>
sAvailableWord == <<"a", "v", "a", "i", "l", "a", "b", "l", "e">>
sErrorWord == <<"e", "r", "r", "o", "r">>
sUnknown == <<"U", "n", "k", "n", "o", "w", "n">>
sHRTPrefix == <<"H", "R", "T", " ">>
sTRTPrefix == <<"T", "R", "T", " ">>
sProviderPrefix == <<"P", "r", "o", "v", "i", "d", "e", "r", ":", " ">>

\* rows[0].map(h => (h || '').toLowerCase().trim())
headersOf(rows) == [k \in 1..Len(rows[1]) |-> trim(toLowerCase(rows[1][k]))]

\* headers.findIndex(...) over the indices that satisfy the test: the first
\* of them, counted from 0, and -1 when there is none
findIndex(hits) == IF hits = {} THEN 0 - 1 ELSE Min(hits) - 1

nameIndex(h) ==
  findIndex({k \in 1..Len(h) : includes(h[k], sName) /\ ~includes(h[k], sUrlWord)})
categoryIndex(h) ==
  findIndex({k \in 1..Len(h) : includes(h[k], sCategoryWord) \/ includes(h[k], sTypeWord)})
locationIndex(h) ==
  findIndex({k \in 1..Len(h) : includes(h[k], sLocationWord) \/ includes(h[k], sStateWord)})
daysOutIndex(h) ==
  findIndex({k \in 1..Len(h) : includes(h[k], sDaysWord) /\ includes(h[k], sOutWord)})
firstAvailableIndex(h) ==
  findIndex({k \in 1..Len(h) : includes(h[k], sFirstWord) /\ includes(h[k], sAvailableWord)})
errorIndex(h) == findIndex({k \in 1..Len(h) : includes(h[k], sErrorWord)})

\* index >= 0 ? (row[index] || '').trim() : ''
Column(row, index) == IF index >= 0 THEN trim(Field(row, index)) ELSE <<>>

\* the status marks removed by replace(/[...]/g, ''), each one character
StatusMarks == {"U+26A1", "U+2705", "U+274C", "U+1F7E1", "U+1F534"}

NaN == [nan |-> TRUE, value |-> 0]
Number(n) == [nan |-> FALSE, value |-> n]

\* the digits parseInt reads at index k of s, after the sign
IntegerFrom(s, k, sign) ==
  IF SkipChars(s, k, Digits) = k THEN NaN
  ELSE Number(sign * parseInt(SubSeq(s, k, SkipChars(s, k, Digits) - 1)))

\* parseInt(s, 10) of a string: leading white space, an optional sign, then
\* the digits up to the first character that is none; NaN without a digit
parseIntOfString(s, k) ==
  IF k <= Len(s) /\ s[k] = "-" THEN IntegerFrom(s, k + 1, 0 - 1)
  ELSE IF k <= Len(s) /\ s[k] = "+" THEN IntegerFrom(s, k + 1, 1)
  ELSE IntegerFrom(s, k, 1)

\* let daysOut = -1; if (daysOutStr) { cleaned; parsed; if (!isNaN(parsed)) daysOut = parsed }
ParsedOrUnknown(parsed) == IF parsed.nan THEN 0 - 1 ELSE parsed.value

cleanedDaysOut(text) == trim(SelectSeq(text, LAMBDA c : c \notin StatusMarks))

legacyDaysOut(text) ==
  IF text = <<>> THEN 0 - 1
  ELSE ParsedOrUnknown(parseIntOfString(cleanedDaysOut(text),
                                        SkipChars(cleanedDaysOut(text), 1, WhiteSpace)))

startsWith(s, prefix) == Len(s) >= Len(prefix) /\ SubSeq(s, 1, Len(prefix)) = prefix

\* let type = category || 'Unknown', then the prefix of the name decides
typeOf(name, category) ==
  IF startsWith(name, sHRTPrefix) THEN sHRT
  ELSE IF startsWith(name, sTRTPrefix) THEN sTRT
  ELSE IF startsWith(name, sProviderPrefix) THEN sProvider
  ELSE IF category = <<>> THEN sUnknown ELSE category

\* the indices at which /(?:HRT|TRT)\s+(.+)/ matches a trimmed name
StateNameMatches(name) ==
  {k \in 1..Len(name) :
     /\ k + 4 <= Len(name)
     /\ SubSeq(name, k, k + 2) \in {sHRT, sTRT}
     /\ name[k + 3] \in WhiteSpace}

\* match[1] of the first match: what follows the white space
StateOfName(name, k) == SubSeq(name, SkipChars(name, k + 3, WhiteSpace), Len(name))

finalLocation(name, type, location) ==
  IF location = <<>> /\ type \in {sHRT, sTRT} /\ StateNameMatches(name) # {}
  THEN StateOfName(name, Min(StateNameMatches(name)))
  ELSE location

\* tabName.match(/(\d{4}-\d{2}-\d{2})/) ? new Date(match[1]) : new Date()
scrapeDate(tab, now) ==
  IF tab[1] = "YYYY-MM-DD"
  THEN [from |-> "tab", at |-> tab[2], time |-> "00:00", sec |-> "00", text |-> <<>>]
  ELSE StampNow(now)

LegacyResult(name, type, location, daysOut, firstAvailable, error, stamp) ==
  [name |-> name,
   type |-> type,
   location |-> finalLocation(name, type, location),
   daysOutUntilAppointment |-> daysOut,
   firstAvailableDate |-> IF firstAvailable = <<>> THEN <<>> ELSE <<firstAvailable>>,
   scrapedAt |-> stamp,
   error |-> error]

\* the body of the row loop, h being the header row in lower case
LegacyResultOf(row, h, stamp) ==
  IF Len(row) = 0 \/ Column(row, nameIndex(h)) = <<>> THEN <<>>
  ELSE <<LegacyResult(Column(row, nameIndex(h)),
                      typeOf(Column(row, nameIndex(h)), Column(row, categoryIndex(h))),
                      Column(row, locationIndex(h)),
                      legacyDaysOut(Column(row, daysOutIndex(h))),
                      Column(row, firstAvailableIndex(h)),
                      Column(row, errorIndex(h)),
                      stamp)>>

RECURSIVE LegacyResultsFrom(_, _, _, _)
LegacyResultsFrom(rows, r, h, stamp) ==
  IF r > Len(rows) THEN <<>>
  ELSE LegacyResultOf(rows[r], h, stamp) \o LegacyResultsFrom(rows, r + 1, h, stamp)

\* parseRowsToResults(rows, tabName) of part_003
parseRowsToResults(rows, tab, now) ==
  LegacyResultsFrom(rows, 2, headersOf(rows), scrapeDate(tab, now))

-----------------------------------------------------------------------------
(* The validators applied to sets of rows: every combination of category,  *)
(* name, URL and wait cells, alone or beside a row every validator keeps.  *)

MaxDataRows == 2

sExcludedName == <<"D", "a", "n", "i", "e", "l", " ", "R", "a", "p", "h", "a", "e", "l", " ", "M", "D">>
sStateName == <<"H", "R", "T", " ", "T", "e", "x", "a", "s">>
sOtherUrl == <<"e", "x", "a", "m", "p", "l", "e", ".", "c", "o", "m", "/", "a">>
sNegativeWait == <<"-", "3">>
sDaysWait == <<"1", "2", " ", "d", "a", "y", "s">>

HeaderDaysOut == <<<<"C", "a", "t", "e", "g", "o", "r", "y">>, <<"S", "t", "a", "t", "e">>, <<"N", "a", "m", "e">>, <<"U", "R", "L">>, <<"D", "a", "y", "s", " ", "O", "u", "t">>>>

GoodRow == <<sHRT, sTX, sAlpha, sUrl, Cell2>>

\* a row of four columns
ShortRow == <<sHRT, sTX, sBeta, sUrl>>

CategoryCells == {sHRT, sProvider, sAlpha, <<>>}
NameCells == {sBeta, sSummaryName, sExcludedName, sStateName, <<>>}
UrlCells == {sUrl, sOtherUrl}
WaitCells == {Cell3, sDecorated, sUnknownWait, sNegativeWait, sDaysWait}

RowPool ==
  {<<c, sOH, n, u, w>> : c \in CategoryCells, n \in NameCells, u \in UrlCells, w \in WaitCells}
  \cup {ShortRow}

\* a header (or a data row in its place), then the good row with one row
\* of the pool among or instead of it
RowSets ==
  {<<h>> \o [k \in 1..n |-> IF k = j THEN r ELSE GoodRow] :
     h \in {HeaderRow, HeaderDaysOut, GoodRow}, n \in 1..MaxDataRows, j \in 1..MaxDataRows, r \in RowPool}

InitValidate ==
  /\ clock \in {c \in Clocks : ~c.tz.hasDst /\ c.tz.base = 0}
  /\ source \in RowSets
  /\ pc = "rows"
  /\ i = 0
  /\ allDaysData = <<>>
  /\ response = NoResponse
  /\ probe = NoProbe

Validated(by, records) == [by |-> by, records |-> records]

\* the row loop of fetchDataForDate of the analytics route
ValidateAnalytics ==
  /\ pc = "rows"
  /\ response' = Validated("analytics", MapRows(source))
  /\ pc' = "validated"
  /\ UNCHANGED <<clock, source, i, allDaysData, probe>>

\* parseResults of src/app/api/data/route.ts
ValidateData ==
  /\ pc = "rows"
  /\ response' = Validated("data", dataParseResults(source, PublishedTab(Today), clock.now))
  /\ pc' = "validated"
  /\ UNCHANGED <<clock, source, i, allDaysData, probe>>

\* parseResults of src/unnamed/part_004
ValidateResults ==
  /\ pc = "rows"
  /\ response' = Validated("part_004", parseResults(source, PublishedTab(Today), clock.now))
  /\ pc' = "validated"
  /\ UNCHANGED <<clock, source, i, allDaysData, probe>>

\* parseRowsToResults of src/unnamed/part_003
ValidateLegacy ==
  /\ pc = "rows"
  /\ response' = Validated("part_003", parseRowsToResults(source, PublishedTab(Today), clock.now))
  /\ pc' = "validated"
  /\ UNCHANGED <<clock, source, i, allDaysData, probe>>

NextValidate == ValidateAnalytics \/ ValidateData \/ ValidateResults \/ ValidateLegacy

SpecValidate == InitValidate /\ [][NextValidate]_vars

\* the rows a validator was given and the records it returned
ValidatedRows == source
ValidatedRecords == response.records
IsValidated == pc = "validated"

\* the wait of a record of either shape
WaitOf(record) ==
  IF "daysOut" \in DOMAIN record THEN record.daysOut ELSE record.daysOutUntilAppointment

\* the data rows (all but row 0) whose category cell is whitelisted
WhitelistedRows(rows) == {k \in 2..Len(rows) : trim(Field(rows[k], 0)) \in Categories}

\* C13: a validator returns at most as many records as it was given rows,
\* none of them made of the header row (so no more than the data rows with
\* a whitelisted category), and every record's category is HRT, TRT or
\* Provider.
C13_OnlyWhitelistedRows ==
  IsValidated =>
    /\ Len(ValidatedRecords) <= Len(ValidatedRows)
    /\ Len(ValidatedRecords) <= Cardinality(WhitelistedRows(ValidatedRows))
    /\ \A k \in 1..Len(ValidatedRecords) : ValidatedRecords[k].type \in Categories

\* the data rows that pass the domain checks: the URL cell holds the source
\* domain and the name is not on the exclusion list
DomainCheckedRows(rows) ==
  {k \in 2..Len(rows) :
     /\ includes(trim(Field(rows[k], 3)), sOncehub)
     /\ ~includes(toLowerCase(trim(Field(rows[k], 2))), sExcluded)}

\* C15: every record of a validated set comes of a row that passed the
\* domain checks, so there are no more records than such rows and no record
\* bears an excluded name; the row every validator keeps is kept whatever
\* row stands beside it.
C15_DomainChecksPassed ==
  IsValidated =>
    /\ Len(ValidatedRecords) <= Cardinality(DomainCheckedRows(ValidatedRows))
    /\ \A k \in 1..Len(ValidatedRecords) :
         ~includes(toLowerCase(ValidatedRecords[k].name), sExcluded)
    /\ (ValidatedRows[1] = HeaderDaysOut /\ \E k \in 2..Len(ValidatedRows) : ValidatedRows[k] = GoodRow)
         => \E k \in 1..Len(ValidatedRecords) :
              ValidatedRecords[k].name = sAlpha /\ WaitOf(ValidatedRecords[k]) = 2

RECURSIVE PowerOfTen(_)
PowerOfTen(n) == IF n = 0 THEN 1 ELSE 10 * PowerOfTen(n - 1)

RECURSIVE DigitsValue(_, _, _)
\* the decimal value of the digits of s from index a to index b
DigitsValue(s, a, b) ==
  IF a > b THEN 0
  ELSE DigitValue(s[a]) * PowerOfTen(b - a) + DigitsValue(s, a + 1, b)

DigitPositions(s) == {k \in 1..Len(s) : s[k] \in Digits}

\* the end of the run of digits that starts at index a
RunEnd(s, a) == Max({b \in a..Len(s) : \A k \in a..b : s[k] \in Digits})

\* the value of the first run of digits of a field, -1 when it has no digit
FirstRunValue(s) ==
  IF DigitPositions(s) = {} THEN 0 - 1
  ELSE DigitsValue(s, Min(DigitPositions(s)), RunEnd(s, Min(DigitPositions(s))))

\* C16: the wait of every record is the value of the first run of digits of
\* the row's wait field, whatever surrounds the digits, hence 0 or more,
\* and -1 exactly when the field holds no digit (on sets of one data row,
\* whose record is that row's).
C16_WaitIsFirstDigitRun ==
  (IsValidated /\ Len(ValidatedRows) = 2) =>
    \A k \in 1..Len(ValidatedRecords) :
       /\ WaitOf(ValidatedRecords[k]) = FirstRunValue(Field(ValidatedRows[2], 4))
       /\ WaitOf(ValidatedRecords[k]) >= 0 - 1
       /\ (WaitOf(ValidatedRecords[k]) = 0 - 1) = (DigitPositions(Field(ValidatedRows[2], 4)) = {})

-----------------------------------------------------------------------------
(* The wait-ordered listings: the records endpoint sorts the records of   *)
(* the resolved tab, and the page filters and sorts what the endpoint     *)
(* returned (src/app/page.tsx, the table's `filtered` list).              *)

\* Array.prototype.sort (stable) under a comparator given as "a before b"
SortWith(items, before(_, _)) ==
  [r \in 1..Len(items) |->
     items[CHOOSE j \in 1..Len(items) :
             Cardinality({m \in 1..Len(items) :
                            \/ before(items[m], items[j])
                            \/ (~before(items[j], items[m]) /\ m < j)}) + 1 = r]]

\* the view filter of the page: 'summary' keeps everything
InView(d, view) ==
  CASE view = "summary" -> TRUE
    [] view = "hrt" -> d.type = sHRT
    [] view = "trt" -> d.type = sTRT
    [] OTHER -> d.type = sProvider

\* the search filter of the page: no filter for the empty search text
Found(d, search) ==
  search = <<>>
    \/ includes(toLowerCase(d.name), toLowerCase(search))
    \/ includes(toLowerCase(d.location), toLowerCase(search))

\* a.type.localeCompare(b.type) over the three type values
TypeRank(type) == IF type = sHRT THEN 1 ELSE IF type = sProvider THEN 2 ELSE 3

\* the comparator's cmp: `daysOutUntilAppointment ?? 999` replaces only null
\* and undefined, which the field of a returned record never is (-1 stays -1)
PageCmp(a, b, sortBy) ==
  IF sortBy = "wait" THEN a.daysOutUntilAppointment - b.daysOutUntilAppointment
  ELSE TypeRank(a.type) - TypeRank(b.type)

\* return sortDir === 'asc' ? cmp : -cmp
PageOrder(a, b, sortBy, sortDir) ==
  IF sortDir = "asc" THEN PageCmp(a, b, sortBy) < 0 ELSE 0 - PageCmp(a, b, sortBy) < 0

\* the `filtered` list of the page
filtered(data, view, search, sortBy, sortDir) ==
  LET inView(d) == InView(d, view)
      found(d) == Found(d, search)
      before(a, b) == PageOrder(a, b, sortBy, sortDir)
  IN  SortWith(SelectSeq(SelectSeq(data, inView), found), before)

\* the rows of the resolved tab: up to MaxListed rows whose category, wait
\* cell and error cell vary; the k-th row is named by the k-th letter
MaxListed == 3

sErrorCode == <<"E", "4", "0", "4">>

ListedRow(k, category, wait, error) ==
  <<category, StateLocations[(k % 3) + 1], <<"S", RecordLetters[k]>>, sUrl, wait,
    <<>>, <<>>, <<>>, <<>>, error>>

ListedCells == {sHRT, sProvider} \X {<<>>, Cell2, Cell7} \X {<<>>, sErrorCode}

ListedSheet(n, c) ==
  <<HeaderRow>> \o [k \in 1..n |-> ListedRow(k, c[k][1], c[k][2], c[k][3])]

PageViews == {"summary", "hrt", "trt", "providers"}
PageSearches == {<<>>, <<"A">>, <<"t", "e">>}

InitSort ==
  /\ clock \in {c \in Clocks : ~c.tz.hasDst /\ c.tz.base = 0}
  /\ \E n \in 1..MaxListed : \E c \in [1..n -> ListedCells] : source = ListedSheet(n, c)
  /\ pc = "sheet"
  /\ i = 0
  /\ allDaysData = <<>>
  /\ response = NoResponse
  /\ probe = NoProbe

\* GET /api/data once the tab is resolved: parse its rows, sort, respond
ServeRecords ==
  /\ pc = "sheet"
  /\ response' = DataResponse(Success(dataParseResults(source, TABS_TO_TRY[1], clock.now)),
                              <<>>, clock.now)
  /\ pc' = "served"
  /\ UNCHANGED <<clock, source, i, allDaysData, probe>>

\* the page takes the response's data and shows it filtered and sorted
ShowTable ==
  /\ pc = "served"
  /\ response.success
  /\ \E view \in PageViews, search \in PageSearches,
        sortBy \in {"wait", "type"}, sortDir \in {"asc", "desc"} :
       probe' = [view |-> view, search |-> search, sortBy |-> sortBy, sortDir |-> sortDir,
                 filtered |-> filtered(response.data, view, search, sortBy, sortDir)]
  /\ pc' = "shown"
  /\ UNCHANGED <<clock, source, i, allDaysData, response>>

NextSort == ServeRecords \/ ShowTable

SpecSort == InitSort /\ [][NextSort]_vars

\* no known wait stands after an unknown one
UnknownLast(listing) ==
  \A a, b \in 1..Len(listing) :
    (a < b /\ listing[a].daysOutUntilAppointment < 0) => listing[b].daysOutUntilAppointment < 0

\* C17: in every wait-ordered listing the records whose wait is unknown (-1)
\* stand after every record whose wait is known: in the data of the records
\* endpoint's response, and in the page's table when it is sorted by wait
C17_UnknownWaitsLast ==
  /\ (pc \in {"served", "shown"} /\ response.success) => UnknownLast(response.data)
  /\ (pc = "shown" /\ probe.sortBy = "wait") => UnknownLast(probe.filtered)

-----------------------------------------------------------------------------
(* parseCSV over texts: the text is either the encoding of a row of       *)
(* fields (double-quote-enclosed, comma-separated, an embedded quote      *)
(* doubled) or any text the publishing endpoint may serve.                *)

MaxRowText == 4
MaxText == 5

FieldAlphabet == {"a", ",", "\""}
TextAlphabet == {"a", ",", "\"", "\n", " "}

TextsUpTo(alphabet, n) == UNION {[1..m -> alphabet] : m \in 0..n}

\* a row of fields is given by the text of at most MaxRowText characters that
\* holds its fields one per line
\* the text is the encoding of a row of fields
EncodedText(row) == [encoded |-> TRUE, row |-> row, text |-> EncodeRow(row)]

\* the text is any text
FreeText(t) == [encoded |-> FALSE, row |-> <<>>, text |-> t]

InitCSV ==
  /\ clock \in {c \in Clocks : ~c.tz.hasDst /\ c.tz.base = 0}
  /\ \/ \E t \in TextsUpTo(FieldAlphabet \cup {"\n"}, MaxRowText) : source = EncodedText(split(t))
     \/ \E t \in TextsUpTo(TextAlphabet, MaxText) : source = FreeText(t)
  /\ pc = "text"
  /\ i = 0
  /\ allDaysData = <<>>
  /\ response = NoResponse
  /\ probe = NoProbe

\* const rows = parseCSV(text)
ParseText ==
  /\ pc = "text"
  /\ response' = [rows |-> parseCSV(source.text)]
  /\ pc' = "parsed"
  /\ UNCHANGED <<clock, source, i, allDaysData, probe>>

NextCSV == ParseText

SpecCSV == InitCSV /\ [][NextCSV]_vars

\* C18: CSV round trip: for every row of fields over an alphabet with commas
\* and double quotes (no newline), parsing the row's encoding (fields enclosed
\* in double quotes, separated by commas, an embedded quote doubled) gives
\* back exactly that row: the same fields in the same order, no field split
\* at a comma inside it
C18_RoundTrip ==
  (pc = "parsed" /\ source.encoded) => response.rows = <<source.row>>

\* a row of two fields, one holding a comma and one holding a quote, has
\* been parsed back
C18_Witness ==
  /\ pc = "parsed"
  /\ source.encoded
  /\ Len(source.row) = 2
  /\ \E f \in 1..2 : \E k \in 1..Len(source.row[f]) : source.row[f][k] = ","
  /\ \E f \in 1..2 : \E k \in 1..Len(source.row[f]) : source.row[f][k] = "\""
  /\ response.rows = <<source.row>>

\* the lines of a text, cut at every newline
LinesOf(text) ==
  LET cuts == {0, Len(text) + 1} \cup {k \in 1..Len(text) : text[k] = "\n"}
      starts == cuts \ {Len(text) + 1}
      after(c) == CHOOSE d \in cuts : d > c /\ \A e \in cuts : e > c => d <= e
      nth(n) == CHOOSE c \in starts : Cardinality({d \in starts : d < c}) = n - 1
  IN  [n \in 1..Cardinality(starts) |-> SubSeq(text, nth(n) + 1, after(nth(n)) - 1)]

IsBlank(line) == \A k \in 1..Len(line) : line[k] \in WhiteSpace

IsNotBlank(line) == ~IsBlank(line)

NonBlankLines(text) == SelectSeq(LinesOf(text), IsNotBlank)

QuotesBefore(line, q) == Cardinality({k \in 1..(q - 1) : line[k] = "\""})

\* a line has an unterminated quote when its quote characters are odd in number
HasUnterminatedQuote(line) == QuotesBefore(line, Len(line) + 1) % 2 = 1

\* the quote left open at the end of the line (0 if none), reading from index
\* k with the quote opened at index open (0 if none): inside quotes a doubled
\* quote is an escaped quote, any other quote closes
RECURSIVE OpenQuoteFrom(_, _, _)
OpenQuoteFrom(line, k, open) ==
  IF k > Len(line) THEN open
  ELSE IF line[k] # "\"" THEN OpenQuoteFrom(line, k + 1, open)
  ELSE IF open = 0 THEN OpenQuoteFrom(line, k + 1, k)
  ELSE IF k + 1 <= Len(line) /\ line[k + 1] = "\"" THEN OpenQuoteFrom(line, k + 2, open)
  ELSE OpenQuoteFrom(line, k + 1, 0)

\* the quote that is never closed
IsOpenQuote(line, q) == q = OpenQuoteFrom(line, 1, 0)

\* the text with each doubled quote reduced to one quote
RECURSIVE Unescaped(_)
Unescaped(s) ==
  IF s = <<>> THEN <<>>
  ELSE IF Head(s) = "\"" /\ Len(s) >= 2 /\ s[2] = "\""
       THEN <<"\"">> \o Unescaped(SubSeq(s, 3, Len(s)))
       ELSE <<Head(s)>> \o Unescaped(Tail(s))

EndsWith(s, tail) ==
  Len(tail) <= Len(s) /\ SubSeq(s, Len(s) - Len(tail) + 1, Len(s)) = tail

CommasBefore(line, q) == Cardinality({k \in 1..(q - 1) : line[k] = ","})

Remainder(line, q) == SubSeq(line, q + 1, Len(line))

\* one row of at least one field per non-blank line, none for a blank line
OneRowPerLine(text, rows) ==
  /\ Len(rows) = Len(NonBlankLines(text))
  /\ \A r \in 1..Len(rows) : Len(rows[r]) >= 1

\* C19: parseCSV is total: for every text it returns one row, of at least one
\* field, per non-blank line and none for a blank line; on a line with an
\* unterminated quote the text after that quote, up to the end of the line,
\* is kept in a single field (the last one, no comma in it starting a new
\* field) with each doubled quote in it reduced to one quote
C19_ParseIsTotal ==
  pc = "parsed" =>
    /\ OneRowPerLine(source.text, response.rows)
    /\ \A r \in 1..Len(response.rows) :
         HasUnterminatedQuote(NonBlankLines(source.text)[r]) =>
           \E q \in 1..Len(NonBlankLines(source.text)[r]) :
             /\ IsOpenQuote(NonBlankLines(source.text)[r], q)
             /\ Len(response.rows[r]) <= CommasBefore(NonBlankLines(source.text)[r], q) + 1
             /\ EndsWith(response.rows[r][Len(response.rows[r])],
                         Unescaped(Remainder(NonBlankLines(source.text)[r], q)))

\* a text with a blank line and a line whose unterminated quote is followed
\* by a comma and a doubled quote has been parsed
C19_Witness ==
  /\ pc = "parsed"
  /\ ~source.encoded
  /\ \E n \in 1..Len(LinesOf(source.text)) : IsBlank(LinesOf(source.text)[n])
  /\ Len(response.rows) = 1
  /\ \E q \in 1..Len(NonBlankLines(source.text)[1]) :
       /\ HasUnterminatedQuote(NonBlankLines(source.text)[1])
       /\ IsOpenQuote(NonBlankLines(source.text)[1], q)
       /\ EndsWith(Remainder(NonBlankLines(source.text)[1], q), <<",", "\"", "\"">>)
       /\ response.rows[1] = << <<",", "\"">> >>

\* C19 as stated: on a line with an unterminated quote the text after that
\* quote, up to the end of the line, is kept as it stands (literally) in a
\* single field
C19_RemainderKeptLiterally ==
  pc = "parsed" =>
    /\ OneRowPerLine(source.text, response.rows)
    /\ \A r \in 1..Len(response.rows) :
         HasUnterminatedQuote(NonBlankLines(source.text)[r]) =>
           \E q \in 1..Len(NonBlankLines(source.text)[r]) :
             /\ IsOpenQuote(NonBlankLines(source.text)[r], q)
             /\ Len(response.rows[r]) <= CommasBefore(NonBlankLines(source.text)[r], q) + 1
             /\ EndsWith(response.rows[r][Len(response.rows[r])],
                         Remainder(NonBlankLines(source.text)[r], q))

-----------------------------------------------------------------------------
(* The candidate generators: the tab names each endpoint tries for one    *)
(* calendar date.  The dates endpoint (src/app/api/dates/route.ts) walks  *)
(* the whole scrape window in steps of five minutes.                      *)

ScrapeHours == <<"03", "04", "05">>

FiveMinutes == <<"00", "05", "10", "15", "20", "25", "30", "35", "40", "45", "50", "55">>

ScrapeSeconds == <<"00", "09", "30", "42">>

ScrapeZones == <<"EST", "ET">>

ZonedTab(day, time, sec, zone) == <<"MM-DD-YYYY", day, time, sec, zone>>

\* the n-th name pushed by the nested loops over hour, minute, sec and zone
WindowTab(day, n) ==
  LET z == n % Len(ScrapeZones)
      s == (n \div Len(ScrapeZones)) % Len(ScrapeSeconds)
      m == (n \div (Len(ScrapeZones) * Len(ScrapeSeconds))) % Len(FiveMinutes)
      h == n \div (Len(ScrapeZones) * Len(ScrapeSeconds) * Len(FiveMinutes))
  IN  ZonedTab(day, ScrapeHours[h + 1] \o ":" \o FiveMinutes[m + 1],
               ScrapeSeconds[s + 1], ScrapeZones[z + 1])

WindowTabs(day) ==
  [n \in 1..(Len(ScrapeHours) * Len(FiveMinutes) * Len(ScrapeSeconds) * Len(ScrapeZones)) |->
     WindowTab(day, n - 1)]

\* generateTabNames(date) of the dates endpoint
datesGenerateTabNames(day) == WindowTabs(day) \o <<BareTab(day), IsoTab(day)>>

\* generateTabNames(date) of the records endpoint (part_004): the same list
\* as the analytics endpoint's
resultsGenerateTabNames(day) == generateTabNames(day)

\* the dates endpoint checks the last DatesWindow days
DatesWindow == 14

InitTabs ==
  /\ clock \in Clocks
  /\ source = <<>>
  /\ pc = "date"
  /\ i \in 0..(DatesWindow - 1)
  /\ allDaysData = <<>>
  /\ response = NoResponse
  /\ probe = NoProbe

Listed(by, tabs) == [by |-> by, day |-> LocalDay(clock.tz, DateOfIteration(clock, i)), tabs |-> tabs]

\* checkDateHasData(date) of the dates endpoint, for the day i days back
DatesCandidates ==
  /\ pc = "date"
  /\ response' = Listed("dates", datesGenerateTabNames(LocalDay(clock.tz, DateOfIteration(clock, i))))
  /\ pc' = "listed"
  /\ UNCHANGED <<clock, source, i, allDaysData, probe>>

\* fetchDataForDate(date) of the analytics endpoint, for the day i days back
AnalyticsCandidates ==
  /\ pc = "date"
  /\ i < WindowDays
  /\ response' = Listed("analytics", generateTabNames(LocalDay(clock.tz, DateOfIteration(clock, i))))
  /\ pc' = "listed"
  /\ UNCHANGED <<clock, source, i, allDaysData, probe>>

\* fetchFromGoogleSheets() of the records endpoint, for the day i days back
ResultsCandidates ==
  /\ pc = "date"
  /\ i < WindowDays
  /\ response' = Listed("records", resultsGenerateTabNames(LocalDay(clock.tz, DateOfIteration(clock, i))))
  /\ pc' = "listed"
  /\ UNCHANGED <<clock, source, i, allDaysData, probe>>

NextTabs == DatesCandidates \/ AnalyticsCandidates \/ ResultsCandidates

SpecTabs == InitTabs /\ [][NextTabs]_vars

\* the number of candidates a generator gives for the day of the request
CandidateCount(by) ==
  CASE by = "dates" -> Len(datesGenerateTabNames(Today))
    [] by = "analytics" -> Len(generateTabNames(Today))
    [] OTHER -> Len(resultsGenerateTabNames(Today))

\* C20: for every calendar date each candidate generator returns a list whose
\* length is the same for every date and is in the tens: at least 10 and
\* fewer than 100 candidates
C20_CandidatesInTheTens ==
  pc = "listed" =>
    /\ Len(response.tabs) = CandidateCount(response.by)
    /\ Len(response.tabs) >= 10
    /\ Len(response.tabs) < 100

-----------------------------------------------------------------------------
(* The records endpoint of part_004: fetchTabData, the walk over the last *)
(* days and the request for one date.                                     *)

\* fetchTabData after the text is read: null is Continue
resultsTabRows(rows, tab, now) ==
  IF Len(rows) < 2 THEN Continue
  ELSE IF ~hasValidData(rows) THEN Continue
  ELSE AcceptData(parseResults(rows, tab, now))

\* fetchTabData(tabName)
fetchTabData(src, tab, now) ==
  IF Fetch(src, tab).throws THEN Continue
  ELSE IF ~Fetch(src, tab).ok THEN Continue
  ELSE IF Len(Fetch(src, tab).text) < MinTextLength THEN Continue
  ELSE resultsTabRows(parseCSV(Fetch(src, tab).text), tab, now)

\* the names tried by fetchFromGoogleSheets: the candidates of today and of
\* the six days before, then the fallback tabs
RECURSIVE walkTabs(_, _)
walkTabs(c, n) ==
  IF n >= WindowDays THEN <<NamedTab("Daily Summary"), NamedTab("Summary")>>
  ELSE resultsGenerateTabNames(LocalDay(c.tz, DateOfIteration(c, n))) \o walkTabs(c, n + 1)

resultsLoop(src, tabs, now) ==
  LoopOver(tabs, [k \in 1..Len(tabs) |-> fetchTabData(src, tabs[k], now)])

\* fetchFromGoogleSheets() of part_004
resultsFetchFromGoogleSheets(src, c) ==
  IF resultsLoop(src, walkTabs(c, 0), c.now).found
  THEN Success(resultsLoop(src, walkTabs(c, 0), c.now).data)
  ELSE Failure("Could not find valid Results tab", 0)

\* fetchDataForDate(dateStr) of part_004
resultsFetchDataForDate(src, c, day) ==
  AfterDatedTabs(
    resultsLoop(src, resultsGenerateTabNames(LocalDay(c.tz, DateOfString(day))), c.now),
    day)

\* GET of part_004
resultsGET(src, c, req) ==
  DataResponse(IF req # <<>> THEN resultsFetchDataForDate(src, c, req[1])
               ELSE resultsFetchFromGoogleSheets(src, c),
               req, c.now)

\* the tabs the source may hold: the first of TABS_TO_TRY, today's tab, and
\* tabs of the two days before
WalkSlots ==
  {TABS_TO_TRY[1], BareTab(Today), IsoTab(Today - 1), TimedTab(Today - 2, "03:48", "30")}

WalkKinds == {"throws", "notOk", "Other", "U", "A"}

InitWalk ==
  /\ clock \in Clocks
  /\ \E slots \in {x \in SUBSET WalkSlots : Cardinality(x) <= MaxPublished} :
       source \in [slots -> WalkKinds]
  /\ pc = "request"
  /\ i = 0
  /\ allDaysData = <<>>
  /\ response = NoResponse
  /\ probe = NoProbe

\* GET /api/data without a date (src/app/api/data/route.ts)
DataLatest ==
  /\ pc = "request"
  /\ response' = dataGET(source, clock, <<>>)
  /\ probe' = [by |-> "data"]
  /\ pc' = "done"
  /\ UNCHANGED <<clock, source, i, allDaysData>>

\* GET /api/data without a date (part_004)
ResultsLatest ==
  /\ pc = "request"
  /\ response' = resultsGET(source, clock, <<>>)
  /\ probe' = [by |-> "results"]
  /\ pc' = "done"
  /\ UNCHANGED <<clock, source, i, allDaysData>>

NextWalk == DataLatest \/ ResultsLatest

SpecWalk == InitWalk /\ [][NextWalk]_vars

\* the candidate names an endpoint has for the day n days before today
WalkCandidates(by, n) ==
  IF by = "data"
  THEN <<BareTab(LocalDay(clock.tz, DateOfIteration(clock, n))),
         IsoTab(LocalDay(clock.tz, DateOfIteration(clock, n)))>>
  ELSE generateTabNames(LocalDay(clock.tz, DateOfIteration(clock, n)))

\* the days of the walk-back bound one of whose candidates holds records
WalkResolvable(by) ==
  {n \in 0..(WindowDays - 1) :
     \E k \in 1..Len(WalkCandidates(by, n)) : Matches(WalkCandidates(by, n)[k])}

\* the sheet of the first matching candidate of the most recent resolvable day
LatestSheet(by) ==
  LET n == Min(WalkResolvable(by))
      k == Min({j \in 1..Len(WalkCandidates(by, n)) : Matches(WalkCandidates(by, n)[j])})
  IN  Served(WalkCandidates(by, n)[k])

NamesAndWaits(records) ==
  {<<records[k].name, records[k].daysOutUntilAppointment>> : k \in 1..Len(records)}

ExpectedNamesAndWaits(items) == {<<items[k].name, items[k].daysOut>> : k \in 1..Len(items)}

\* C21: a records request without a date returns the snapshot of the most
\* recent day, within the walk-back bound, one of whose candidate tabs
\* validates (never an older day's records while a more recent day resolves),
\* and it fails only when no day within the bound resolves
C21_LatestResolvableDay ==
  pc = "done" =>
    /\ (response.success /\ WalkResolvable(probe.by) # {}) =>
         NamesAndWaits(response.data) =
           ExpectedNamesAndWaits(RecordsOfSheet(LatestSheet(probe.by)))
    /\ ~response.success => WalkResolvable(probe.by) = {}

-----------------------------------------------------------------------------
(* The dates endpoint (src/app/api/dates/route.ts): one probe per day of  *)
(* the last DatesWindow days, and the list of the days that have data.    *)

\* text.includes('oncehub.com') && (text.includes('HRT') || ...)
hasContent(text) ==
  /\ includes(text, sOncehub)
  /\ includes(text, sHRT) \/ includes(text, sTRT) \/ includes(text, sProvider)

\* the body of the loop of checkDateHasData: a failing fetch is skipped
checkResponse(r) ==
  IF r.throws THEN FALSE
  ELSE IF ~r.ok THEN FALSE
  ELSE hasContent(r.text)

checkTabs(src, tabs) == \E k \in 1..Len(tabs) : checkResponse(Fetch(src, tabs[k]))

\* checkDateHasData(date)
checkDateHasData(src, tz, date) == checkTabs(src, datesGenerateTabNames(LocalDay(tz, date)))

\* the promise of iteration n: { date: dateStr, hasData }
DateProbe(src, c, n) ==
  [date |-> ISODate(DateOfIteration(c, n)),
   hasData |-> checkDateHasData(src, c.tz, DateOfIteration(c, n))]

HasData(result) == result.hasData

\* for (const result of results) if (result.hasData) dates.push(result.date)
datesOf(results) ==
  [k \in 1..Len(SelectSeq(results, HasData)) |-> SelectSeq(results, HasData)[k].date]

\* dates.sort().reverse(): most recent first
sortReverse(dates) == StableSort(dates, [k \in 1..Len(dates) |-> 0 - dates[k]])

DatesBody(results) ==
  [success |-> TRUE, dates |-> sortReverse(datesOf(results)), count |-> Len(datesOf(results))]

\* GET /api/dates
datesGET(src, c) == DatesBody([n \in 1..DatesWindow |-> DateProbe(src, c, n - 1)])

\* the tabs the source may hold for the dates endpoint: a timestamped tab and
\* the tab without a timestamp of today, and yesterday's
DateSlots == {TimedTab(Today, "03:00", "00"), BareTab(Today), BareTab(Today - 1)}

DateKinds == {"throws", "Other", "Summary", "A"}

InitDates ==
  /\ clock \in Clocks
  /\ \E slots \in {x \in SUBSET DateSlots : Cardinality(x) <= MaxPublished} :
       source \in [slots -> DateKinds]
  /\ pc = "request"
  /\ i = 0
  /\ allDaysData = <<>>
  /\ response = NoResponse
  /\ probe = NoProbe

\* the page asks for the available dates
ListDates ==
  /\ pc = "request"
  /\ response' = datesGET(source, clock)
  /\ pc' = "listed"
  /\ UNCHANGED <<clock, source, i, allDaysData, probe>>

\* the page sends a listed date back as the date of a records request
\* (src/app/api/data/route.ts); the names probed are kept beside the answer
AskData ==
  /\ pc = "listed"
  /\ \E k \in 1..Len(response.dates) :
       probe' = [by |-> "data", date |-> response.dates[k],
                 tabs |-> datedTabs(clock, response.dates[k]),
                 answer |-> dataGET(source, clock, <<response.dates[k]>>)]
  /\ pc' = "asked"
  /\ UNCHANGED <<clock, source, i, allDaysData, response>>

\* the same request to the records endpoint of part_004
AskResults ==
  /\ pc = "listed"
  /\ \E k \in 1..Len(response.dates) :
       probe' = [by |-> "results", date |-> response.dates[k],
                 tabs |-> resultsGenerateTabNames(LocalDay(clock.tz, DateOfString(response.dates[k]))),
                 answer |-> resultsGET(source, clock, <<response.dates[k]>>)]
  /\ pc' = "asked"
  /\ UNCHANGED <<clock, source, i, allDaysData, response>>

NextDates == ListDates \/ AskData \/ AskResults

SpecDates == InitDates /\ [][NextDates]_vars

\* C22: every date the dates endpoint lists resolves: a records request for
\* that date, against the same source, succeeds with at least one record
C22_ListedDatesResolve ==
  pc = "asked" => (probe.answer.success /\ Len(probe.answer.data) >= 1)

\* the candidates of the calendar day pass the dates endpoint's content check
DayHasContent(day) == checkTabs(source, datesGenerateTabNames(day))

\* C30: the date label of a resolved day denotes the calendar day whose
\* month, day and year built that day's candidate tab names (every listed
\* date is a day whose own candidates have data), for every server zone; and
\* a listed date sent back as the date of a records request makes the records
\* endpoint probe the tab names of that same calendar day
C30_LabelIsTheProbedDay ==
  /\ pc \in {"listed", "asked"} =>
       \A k \in 1..Len(response.dates) : DayHasContent(response.dates[k])
  /\ pc = "asked" =>
       \A k \in 1..Len(probe.tabs) : probe.tabs[k][2] = probe.date

-----------------------------------------------------------------------------
(* The dates endpoint with its probes in flight: GET starts one promise   *)
(* per day, the promises settle in any order, and Promise.all hands the   *)
(* results over in the order of the days once all have settled.           *)

\* a promise in flight: the probe runs against the source as it is, and its
\* result is handed over when the promise settles
InFlight(result) == [settled |-> FALSE, result |-> result]

Settled(promise) == [promise EXCEPT !.settled = TRUE]

ResultOfPromise(promise) == promise.result

InitProbes ==
  /\ clock \in Clocks
  /\ source \in [{BareTab(Today), TimedTab(Today - 1, "03:00", "00")} -> {"throws", "A"}]
  /\ pc = "request"
  /\ i = 0
  /\ allDaysData = <<>>
  /\ response = NoResponse
  /\ probe = NoProbe

\* promises.push(checkDateHasData(date).then(...)) for each day
StartProbes ==
  /\ pc = "request"
  /\ allDaysData' = [n \in 1..DatesWindow |-> InFlight(DateProbe(source, clock, n - 1))]
  /\ pc' = "probing"
  /\ UNCHANGED <<clock, source, i, response, probe>>

\* one of the promises settles; checkDateHasData catches every failure
SettleProbe ==
  /\ pc = "probing"
  /\ \E n \in 1..DatesWindow :
       /\ ~allDaysData[n].settled
       /\ allDaysData' = [allDaysData EXCEPT ![n] = Settled(allDaysData[n])]
  /\ UNCHANGED <<clock, source, pc, i, response, probe>>

\* await Promise.all(promises), then the response
AnswerDates ==
  /\ pc = "probing"
  /\ \A n \in 1..DatesWindow : allDaysData[n].settled
  /\ response' = DatesBody([n \in 1..DatesWindow |-> ResultOfPromise(allDaysData[n])])
  /\ pc' = "listed"
  /\ UNCHANGED <<clock, source, i, allDaysData, probe>>

NextProbes == StartProbes \/ SettleProbe \/ AnswerDates

SpecProbes == InitProbes /\ [][NextProbes]_vars

\* the calendar days of the window, counted back from the request's day
WindowOfDates == {LocalDay(clock.tz, clock.now) - n : n \in 0..(DatesWindow - 1)}

\* C29: whatever the order in which the probes of the window's days settle,
\* and whichever fetches fail, the request succeeds and its list is exactly
\* the days of the window having a candidate that passes the content check,
\* without duplicates, most recent first, with count equal to its length
C29_ListIsTheDaysWithData ==
  pc = "listed" =>
    /\ response.success
    /\ {response.dates[k] : k \in 1..Len(response.dates)} =
         {day \in WindowOfDates : DayHasContent(day)}
    /\ \A a, b \in 1..Len(response.dates) : a < b => response.dates[a] > response.dates[b]
    /\ response.count = Len(response.dates)

-----------------------------------------------------------------------------
(* Two analytics requests against the same source on the same calendar    *)
(* day of the server: the first some hours before the second.             *)

\* the loop of GET over the days of the window, from iteration n on
RECURSIVE windowSeries(_, _, _, _)
windowSeries(src, c, n, days) ==
  IF n >= WindowDays THEN days
  ELSE windowSeries(src, c, n + 1,
                    PushDay(days, DateOfIteration(c, n),
                            fetchDataForDate(src, c.tz, DateOfIteration(c, n))))

\* GET /api/analytics
analyticsGET(src, c) == AnalyticsResponse(windowSeries(src, c, 0, <<>>))

\* the hours by which the first request precedes the second
EarlierBy == {1, 2}

Earlier(c, hours) == [now |-> c.now - hours, tz |-> c.tz]

InitTwice ==
  /\ clock \in Clocks
  /\ source \in {SourceOf(p) : p \in Publications}
  /\ pc = "first"
  /\ i = 0
  /\ allDaysData = <<>>
  /\ response = NoResponse
  /\ probe = NoProbe

\* the first request, earlier on the same day
FirstReport ==
  /\ pc = "first"
  /\ \E hours \in EarlierBy :
       probe' = [day |-> LocalDay(clock.tz, clock.now - hours),
                 report |-> analyticsGET(source, Earlier(clock, hours))]
  /\ pc' = "second"
  /\ UNCHANGED <<clock, source, i, allDaysData, response>>

\* the second request, at the time of the clock
SecondReport ==
  /\ pc = "second"
  /\ response' = analyticsGET(source, clock)
  /\ pc' = "done"
  /\ UNCHANGED <<clock, source, i, allDaysData, probe>>

NextTwice == FirstReport \/ SecondReport

SpecTwice == InitTwice /\ [][NextTwice]_vars

\* C23: two analytics requests against the same unchanged source on the same
\* reference day return identical reports
C23_SameReportTwice ==
  (pc = "done" /\ probe.day = LocalDay(clock.tz, clock.now)) => response = probe.report

-----------------------------------------------------------------------------
(* The regional aggregates of the report (analytics/route.ts 247-270), for *)
(* snapshots whose records carry the locations a sheet of scheduling pages *)
(* holds: state codes and the federal district written in full             *)

sNY == <<"N", "Y">>
sWashingtonDC == <<"W", "a", "s", "h", "i", "n", "g", "t", "o", "n", " ", "D", "C">>

MaxRegionRecords == 2

RegionLocations == {sTX, sOH, sNY, sWashingtonDC}

RegionWaits == {0 - 1, 2, 5}

\* the records a row of the sheet parses to; names are unique by position
RegionRecord(k, type, location, daysOut) ==
  [name |-> <<"S", RecordLetters[k]>>, type |-> type, location |-> location, daysOut |-> daysOut]

\* the state of GET after its loop, one day having resolved to a snapshot
InitRegions ==
  /\ clock \in {c \in Clocks : ~c.tz.hasDst /\ c.tz.base = 0}
  /\ source = <<>>
  /\ pc = "loop"
  /\ i = WindowDays
  /\ \E n \in 1..MaxRegionRecords :
       \E types \in [1..n -> Categories], locations \in [1..n -> RegionLocations],
          waits \in [1..n -> RegionWaits] :
         allDaysData = PushDay(<<>>, clock.now,
                         [found |-> TRUE,
                          data |-> [k \in 1..n |-> RegionRecord(k, types[k], locations[k], waits[k])]])
  /\ response = NoResponse
  /\ probe = NoProbe

NextRegions == Respond

SpecRegions == InitRegions /\ [][NextRegions]_vars

RECURSIVE SumCounts(_, _)
SumCounts(entries, k) == IF k > Len(entries) THEN 0 ELSE entries[k].count + SumCounts(entries, k + 1)

\* C26: every HRT or TRT record of known wait of the latest snapshot is
\* counted in at most one region, so the counts of the regions of the report
\* sum to at most the number of those records.
C26_RegionsCountEachRecordOnce ==
  pc = "done" =>
    SumCounts(response.regionalStats, 1) <= Len(statesOnly(LatestSnapshot))

-----------------------------------------------------------------------------
(* Two requests for the same day against a source that does not change     *)
(* between them (analytics/route.ts 85-96, part_004 154-162).  Every fetch *)
(* is issued with cache: 'no-store' and no module keeps a resolved day:    *)
(* allDaysData is here the log of the tabs fetched from the source, i its  *)
(* length when the first request has answered.                             *)

RepeatDays == {Today, Today - 1}

InitRepeat ==
  /\ clock \in Clocks
  /\ \E slots \in {x \in SUBSET DateSlots : Cardinality(x) <= MaxPublished} :
       source \in [slots -> DateKinds]
  /\ pc = "request"
  /\ i = 0
  /\ allDaysData = <<>>
  /\ response = NoResponse
  /\ probe = NoProbe

\* fetchDataForDate(date) of the analytics route, for a day of its window
ResolveDay ==
  /\ pc = "request"
  /\ \E day \in RepeatDays :
       /\ probe' = [by |-> "analytics", day |-> day,
                    first |-> fetchDataForDate(source, clock.tz, FromLocal(clock.tz, 24 * day))]
       /\ allDaysData' = allDaysData \o fetchDataForDate(source, clock.tz, FromLocal(clock.tz, 24 * day)).fetched
       /\ i' = Len(allDaysData')
  /\ pc' = "resolved"
  /\ UNCHANGED <<clock, source, response>>

\* fetchDataForDate(dateStr) of part_004, each name through fetchTabData
ResolveRecords ==
  /\ pc = "request"
  /\ \E day \in RepeatDays :
       /\ probe' = [by |-> "results", day |-> day,
                    first |-> resultsLoop(source, resultsGenerateTabNames(LocalDay(clock.tz, DateOfString(day))), clock.now)]
       /\ allDaysData' = allDaysData \o resultsLoop(source, resultsGenerateTabNames(LocalDay(clock.tz, DateOfString(day))), clock.now).fetched
       /\ i' = Len(allDaysData')
  /\ pc' = "resolved"
  /\ UNCHANGED <<clock, source, response>>

\* the same request once more, the source being what it was
ResolveAgain ==
  /\ pc = "resolved"
  /\ response' = IF probe.by = "analytics"
                 THEN fetchDataForDate(source, clock.tz, FromLocal(clock.tz, 24 * probe.day))
                 ELSE resultsLoop(source, resultsGenerateTabNames(LocalDay(clock.tz, DateOfString(probe.day))), clock.now)
  /\ allDaysData' = allDaysData \o response'.fetched
  /\ pc' = "again"
  /\ UNCHANGED <<clock, source, i, probe>>

NextRepeat == ResolveDay \/ ResolveRecords \/ ResolveAgain

SpecRepeat == InitRepeat /\ [][NextRepeat]_vars

\* C24: once a request has resolved a day, a further request for the same
\* day against the unchanged source is served from the snapshot kept in
\* process: it adds no fetch to those the first request issued.
C24_RepeatIssuesNoFetch ==
  (pc = "again" /\ probe.first.found) => Len(allDaysData) = i

-----------------------------------------------------------------------------
(* The page (src/app/page.tsx 77-90, 157, 186-223, 390-396) in front of    *)
(* the three endpoints.  probe is the state of the component, allDaysData  *)
(* the calls of fetchData awaiting their responses, i the number of calls  *)
(* made, response what the last call received.                             *)

MaxLoads == 2

\* useState([]), useState(null), useState(true), useState(''), useState([])
NoAnalytics == [none |-> TRUE]
NoDate == <<>>
MountedPage ==
  [data |-> <<>>, lastUpdated |-> NoStamp, analytics |-> NoAnalytics,
   loading |-> TRUE, selectedDate |-> NoDate, availableDates |-> <<>>]

InitPage ==
  /\ clock \in Clocks
  /\ \E slots \in {x \in SUBSET DateSlots : Cardinality(x) <= MaxPublished} :
       source \in [slots -> DateKinds]
  /\ pc = "mount"
  /\ i = 0
  /\ allDaysData = <<>>
  /\ response = NoResponse
  /\ probe = MountedPage

\* fetchData(date) up to its await: setLoading(true) and the three requests
StartFetch(page, date) == [page EXCEPT !.loading = TRUE]

\* useEffect(() => { fetchData() }, [fetchData])
Mount ==
  /\ pc = "mount"
  /\ probe' = StartFetch(probe, NoDate)
  /\ allDaysData' = Append(allDaysData, NoDate)
  /\ i' = i + 1
  /\ pc' = "page"
  /\ UNCHANGED <<clock, source, response>>

\* the options of the date selector: '' (Today) and the available dates.
\* While loading the component returns the loading screen alone, and the
\* selector is not on the page.
DateOptions(page) == {NoDate} \cup {<<page.availableDates[k]>> : k \in 1..Len(page.availableDates)}

\* handleDateChange(date): setSelectedDate(date), then fetchData(date) or
\* fetchData()
handleDateChange ==
  /\ pc = "page"
  /\ ~probe.loading
  /\ i < MaxLoads
  /\ \E date \in DateOptions(probe) :
       /\ probe' = StartFetch([probe EXCEPT !.selectedDate = date], date)
       /\ allDaysData' = Append(allDaysData, date)
  /\ i' = i + 1
  /\ UNCHANGED <<clock, source, pc, response>>

\* what the three endpoints answer to fetchData(date): /api/analytics reads
\* no parameter of its request
Responses(src, c, date) ==
  [rejected |-> FALSE, date |-> date,
   dataRes |-> dataGET(src, c, date),
   analyticsRes |-> analyticsGET(src, c),
   datesRes |-> datesGET(src, c)]

Rejected(date) == [rejected |-> TRUE, date |-> date]

\* if (dataRes.success) { setData; setLastUpdated }
\* if (analyticsRes.success) setAnalytics(analyticsRes)
\* if (datesRes.success && datesRes.dates) setAvailableDates(datesRes.dates)
\* finally setLoading(false)
AfterResponses(page, r) ==
  [data |-> IF r.dataRes.success THEN r.dataRes.data ELSE page.data,
   lastUpdated |-> IF r.dataRes.success THEN r.dataRes.lastUpdated ELSE page.lastUpdated,
   analytics |-> IF r.analyticsRes.success THEN r.analyticsRes ELSE page.analytics,
   loading |-> FALSE,
   selectedDate |-> page.selectedDate,
   availableDates |-> IF r.datesRes.success THEN r.datesRes.dates ELSE page.availableDates]

\* the rest of a call of fetchData once Promise.all has resolved
Arrive ==
  /\ pc = "page"
  /\ \E k \in 1..Len(allDaysData) :
       /\ response' = Responses(source, clock, allDaysData[k])
       /\ allDaysData' = SubSeq(allDaysData, 1, k - 1) \o SubSeq(allDaysData, k + 1, Len(allDaysData))
  /\ probe' = AfterResponses(probe, response')
  /\ UNCHANGED <<clock, source, pc, i>>

\* Promise.all rejects (a request fails in the network): finally alone runs
Reject ==
  /\ pc = "page"
  /\ \E k \in 1..Len(allDaysData) :
       /\ response' = Rejected(allDaysData[k])
       /\ allDaysData' = SubSeq(allDaysData, 1, k - 1) \o SubSeq(allDaysData, k + 1, Len(allDaysData))
  /\ probe' = [probe EXCEPT !.loading = FALSE]
  /\ UNCHANGED <<clock, source, pc, i>>

\* the external source stops answering: every fetch of a tab throws
Outage ==
  /\ pc = "page"
  /\ \E t \in DOMAIN source : source[t] # "throws"
  /\ source' = [t \in DOMAIN source |-> "throws"]
  /\ UNCHANGED <<clock, pc, i, allDaysData, response, probe>>

NextPage == Mount \/ handleDateChange \/ Arrive \/ Reject \/ Outage

SpecPage == InitPage /\ [][NextPage]_vars

\* the last call of fetchData has received its three answers
Answered == pc = "page" /\ ~probe.loading /\ response # NoResponse /\ ~response.rejected

\* C25: when the records request or the analytics request of the last load
\* reported failure, the page does not show records or analytics as it does
\* for a populated report: what an earlier load put on screen is gone.
C25_FailureLeavesNothingOnScreen ==
  Answered =>
    /\ ~response.dataRes.success => probe.data = <<>>
    /\ ~response.analyticsRes.success => probe.analytics = NoAnalytics

\* C28: after the user has selected a date and the load has succeeded, the
\* analytics on screen have the selected day as their latest snapshot.
C28_AnalyticsOfTheSelectedDate ==
  (Answered /\ probe.selectedDate # NoDate /\ response.dataRes.success /\ response.analyticsRes.success)
    => probe.analytics.latestDate = probe.selectedDate[1]

\* at most one call of fetchData awaits its responses, and the loading
\* screen is up exactly while one does
OneFetchInFlight == Len(allDaysData) <= 1 /\ (pc = "page" => (probe.loading <=> Len(allDaysData) = 1))

=============================================================================
